---- MODULE Spec2Model ----
(***************************************************************************)
(* A model of the ai-seed-repo automation layer:                           *)
(*   - agents/github_integration.py  (the remote repository client)        *)
(*   - agents/crew_manager.py        (the workflow coordinator)            *)
(*   - agents/orchestrator.py        (process_evolution_request and main)  *)
(*   - scripts/triage_failure.py     (the failure-triage entry point)      *)
(*                                                                         *)
(* Python strings are TLA+ strings: f-strings are concatenations (\o),     *)
(* "x in s" is Contains(s, x).  An HTTP exchange is a request appended to  *)
(* http_log and a response drawn from a small set of responses (a status   *)
(* code with a well-formed or malformed body, or a transport exception).   *)
(* A Python call is modelled by the record it produces: raised (an         *)
(* exception left the call), exc (its text), value (what it returned),     *)
(* sent (the HTTP requests it issued, in order) and logged (its log        *)
(* records, in order).                                                     *)
(***************************************************************************)
EXTENDS Integers, Sequences, FiniteSets, TLC

VARIABLES
    git_remote,       \* what `git remote get-url origin` yields in the working copy
    config,           \* the 'agents' section of the loaded configuration
    agents,           \* the roster of the crew manager (crew_manager.py:38)
    request,          \* the EvolutionRequest of the run (orchestrator.py:28-36)
    pc,               \* the position of process_evolution_request
    calls,            \* the stage calls the run has made, in order
    http_log,         \* the HTTP requests sent to the remote API, in order
    logs,             \* the log records emitted, in order
    kickoffs,         \* the number of crew runs started
    repo_context,     \* the repository context under construction (orchestrator.py:108)
    workflow_result,  \* the result of _execute_agent_workflow
    pr_result,        \* the result of _create_pull_request
    error,            \* the text of the exception caught at orchestrator.py:99
    returned,         \* the value returned by process_evolution_request
    op,               \* the operation called on its own (client or crew manager)
    responses,        \* what that operation's collaborators answered, in order
    result,           \* how that operation ended: raised, exc, value
    env,              \* the process environment of an entry point
    args,             \* the parsed command line of an entry point
    report,           \* the triage report (triage_failure.py:169-182)
    exit_code,        \* the exit status of the process, -1 while it runs
    app_features,     \* the feature list of the demo service (src/main.py:66)
    evolution_log     \* the evolution log of the demo service (src/main.py:65)

run_vars == <<request, pc, calls, kickoffs, repo_context, workflow_result, pr_result,
              error, returned>>

\* What a single operation called on its own, and an entry point, add
op_vars == <<op, responses, result>>
main_vars == <<env, args, report, exit_code>>

\* The in-memory storage of the demo service
demo_vars == <<app_features, evolution_log>>

\* src/main.py:66
InitialFeatures == <<"Health Check", "API Documentation", "Evolution Tracking">>

\* What no step of process_evolution_request changes
run_fixed == <<op_vars, main_vars, demo_vars, git_remote, config, agents, request>>

vars == <<git_remote, config, agents, http_log, logs, run_vars, op_vars, main_vars,
          demo_vars>>

-----------------------------------------------------------------------------
(* Strings *)

Min(a, b) == IF a <= b THEN a ELSE b

\* Python "sub in s"
Contains(s, sub) ==
    \E i \in 1..(Len(s) - Len(sub) + 1) : SubSeq(s, i, i + Len(sub) - 1) = sub

\* Python s[:k]
Prefix(s, k) == SubSeq(s, 1, Min(Len(s), k))

\* Python s.endswith(suffix)
EndsWith(s, suffix) ==
    /\ Len(suffix) <= Len(s)
    /\ SubSeq(s, Len(s) - Len(suffix) + 1, Len(s)) = suffix

\* Python "sep".join(parts)
RECURSIVE Join(_, _)
Join(sep, parts) ==
    IF parts = <<>> THEN ""
    ELSE IF Len(parts) = 1 THEN parts[1]
    ELSE parts[1] \o sep \o Join(sep, Tail(parts))

\* Python s.split(c) for a one-character separator c
RECURSIVE SplitFrom(_, _, _, _)
SplitFrom(s, c, start, i) ==
    IF i > Len(s) THEN <<SubSeq(s, start, Len(s))>>
    ELSE IF SubSeq(s, i, i) = c
         THEN <<SubSeq(s, start, i - 1)>> \o SplitFrom(s, c, i + 1, i + 1)
         ELSE SplitFrom(s, c, start, i + 1)

Split(s, c) == SplitFrom(s, c, 1, 1)

\* Python s.replace(old, new)
RECURSIVE ReplaceFrom(_, _, _, _)
ReplaceFrom(s, old, new, i) ==
    IF i > Len(s) THEN ""
    ELSE IF i + Len(old) - 1 <= Len(s) /\ SubSeq(s, i, i + Len(old) - 1) = old
         THEN new \o ReplaceFrom(s, old, new, i + Len(old))
         ELSE SubSeq(s, i, i) \o ReplaceFrom(s, old, new, i + 1)

Replace(s, old, new) == ReplaceFrom(s, old, new, 1)

\* The characters of the model's strings in code-point order, and str.lower()
CodePoints == " #-./0123456789:@ABCDEFGHIJKLMNOPQRSTUVWXYZ_abcdefghijklmnopqrstuvwxyz"
UpperCase == "ABCDEFGHIJKLMNOPQRSTUVWXYZ"
LowerCase == "abcdefghijklmnopqrstuvwxyz"

Ord(c) ==
    IF \E i \in 1..Len(CodePoints) : SubSeq(CodePoints, i, i) = c
    THEN CHOOSE i \in 1..Len(CodePoints) : SubSeq(CodePoints, i, i) = c
    ELSE 0

LowerChar(c) ==
    IF \E i \in 1..Len(UpperCase) : SubSeq(UpperCase, i, i) = c
    THEN LET i == CHOOSE j \in 1..Len(UpperCase) : SubSeq(UpperCase, j, j) = c
         IN SubSeq(LowerCase, i, i)
    ELSE c

RECURSIVE Lower(_)
Lower(s) == IF s = "" THEN "" ELSE LowerChar(SubSeq(s, 1, 1)) \o Lower(SubSeq(s, 2, Len(s)))

\* Python a < b on strings
RECURSIVE StrLess(_, _)
StrLess(a, b) ==
    IF b = "" THEN FALSE
    ELSE IF a = "" THEN TRUE
    ELSE IF SubSeq(a, 1, 1) = SubSeq(b, 1, 1)
         THEN StrLess(SubSeq(a, 2, Len(a)), SubSeq(b, 2, Len(b)))
         ELSE Ord(SubSeq(a, 1, 1)) < Ord(SubSeq(b, 1, 1))

\* Python sorted(S) for a set of strings
RECURSIVE Sorted(_)
Sorted(S) ==
    IF S = {} THEN <<>>
    ELSE LET m == CHOOSE x \in S : \A y \in S \ {x} : StrLess(x, y)
         IN <<m>> \o Sorted(S \ {m})

-----------------------------------------------------------------------------
(* Call records *)

NoValue == "None"

Returned(v, sent, logged) ==
    [raised |-> FALSE, exc |-> "", value |-> v, sent |-> sent, logged |-> logged]

Raised(e, sent, logged) ==
    [raised |-> TRUE, exc |-> e, value |-> NoValue, sent |-> sent, logged |-> logged]

LogRec(level, msg) == [level |-> level, msg |-> msg]

Request(method, url, json) == [method |-> method, url |-> url, json |-> json]

NoJson == [none |-> TRUE]

\* Variant: no except clause, the exception leaves the operation
Catch_nothing(body, failure, level, prefix) == body

\* try: body / except Exception as e: log prefix + str(e); return failure
Catch(body, failure, level, prefix) ==
    IF body.raised
    THEN Returned(failure, body.sent, Append(body.logged, LogRec(level, prefix \o body.exc)))
    ELSE body

-----------------------------------------------------------------------------
(* The remote API as the client sees it: one response per request *)

Statuses == {200, 201, 404, 500}

\* A response with a status code; valid says whether response.json() parses
\* and holds the keys the caller reads (otherwise reading it raises).
Http(status, valid, data, text) ==
    [failed |-> FALSE, status |-> status, valid |-> valid, data |-> data, text |-> text]

\* requests.get/post/put raised (connection error, timeout)
Transport(data) ==
    [failed |-> TRUE, status |-> 0, valid |-> FALSE, data |-> data,
     text |-> "Connection refused"]

ResponsesOf(datas, default) ==
    {Transport(default)}
        \cup {Http(s, TRUE, d, "response body") : s \in Statuses, d \in datas}
        \cup {Http(s, FALSE, default, "not json") : s \in Statuses}

\* What reading a malformed body raises
BadBody == "Expecting value"

-----------------------------------------------------------------------------
(* agents/github_integration.py *)

base_url == "https://api.github.com"

\* The outcome of `git remote get-url origin` (github_integration.py:47-49):
\* ran says whether subprocess.run returned, url is its stripped stdout.
GitRemotes ==
    {[ran |-> TRUE, url |-> "https://github.com/o/r.git"],
     [ran |-> TRUE, url |-> ""],
     [ran |-> FALSE, url |-> ""]}

_get_repo_info(remote) ==
    LET parts == Split(Replace(remote.url, ".git", ""), "/")
        fallback == [owner |-> "owner", repo |-> "repo"]
    IN IF ~remote.ran
       THEN [info |-> fallback,
             logged |-> <<LogRec("WARNING", "Could not extract repo info from git: "
                                             \o "No such file or directory: 'git'")>>]
       ELSE IF Contains(remote.url, "github.com")
       THEN IF Len(parts) >= 2
            THEN [info |-> [owner |-> parts[Len(parts) - 1], repo |-> parts[Len(parts)]],
                  logged |-> <<>>]
            ELSE [info |-> fallback,
                  logged |-> <<LogRec("WARNING", "Could not extract repo info from git: "
                                                  \o "list index out of range")>>]
       ELSE [info |-> fallback, logged |-> <<>>]

RepoUrl(remote) ==
    LET i == _get_repo_info(remote).info
    IN base_url \o "/repos/" \o i.owner \o "/" \o i.repo

\* The body of an operation runs after _get_repo_info, whose warning comes first
WithRepoInfo(remote, call) ==
    [call EXCEPT !.logged = _get_repo_info(remote).logged \o @]

\* get_repository_structure's _summarize_structure (github_integration.py:82-99)
_summarize_structure(tree) ==
    LET IsTree(item) == item.type = "tree"
        IsFile(item) == item.type = "blob" /\ Contains(item.path, ".")
        Ext(item) == LET p == Split(item.path, ".") IN p[Len(p)]
        dirs == SelectSeq(tree, IsTree)
        files == SelectSeq(tree, IsFile)
        folders == {Split(dirs[i].path, "/")[1] : i \in DOMAIN dirs}
        exts == {Ext(files[i]) : i \in DOMAIN files}
        Count(ext) == Cardinality({i \in DOMAIN files : Ext(files[i]) = ext})
        sorted_exts == Sorted(exts)
        typed == [i \in DOMAIN sorted_exts |->
                     sorted_exts[i] \o "(" \o ToString(Count(sorted_exts[i])) \o ")"]
    IN "Repository has " \o ToString(Cardinality(folders)) \o " main directories: "
           \o Join(", ", Sorted(folders)) \o "\n"
           \o "File types: " \o Join(", ", typed)

get_repository_structure_try(remote, r) ==
    LET get == Request("GET", RepoUrl(remote) \o "/git/trees/main?recursive=1", NoJson)
    IN IF r.failed THEN Raised(r.text, <<get>>, <<>>)
       ELSE IF r.status = 200
       THEN IF ~r.valid THEN Raised(BadBody, <<get>>, <<>>)
            ELSE Returned([tree |-> r.data.tree,
                           structure_summary |-> _summarize_structure(r.data.tree)],
                          <<get>>, <<>>)
       ELSE Returned([tree |-> <<>>, structure_summary |-> "Could not retrieve structure"],
                     <<get>>,
                     <<LogRec("ERROR", "Failed to get repository structure: "
                                        \o ToString(r.status))>>)

get_repository_structure(remote, r) ==
    LET body == get_repository_structure_try(remote, r)
    IN WithRepoInfo(remote,
         IF body.raised
         THEN Returned([tree |-> <<>>, structure_summary |-> "Error: " \o body.exc],
                       body.sent,
                       Append(body.logged,
                              LogRec("ERROR", "Error getting repository structure: "
                                               \o body.exc)))
         ELSE body)

\* github_integration.py:103
key_files == <<"README.md", "requirements.txt", "pyproject.toml", "setup.py">>

KeyFileContentLimit == 2000

\* base64 as the remote encodes file contents: the model's encoding of a text
\* is the text behind a marker, and decoding anything else raises.
B64Marker == "b64:"
b64encode(text) == B64Marker \o text
IsB64(s) == Len(s) >= Len(B64Marker) /\ SubSeq(s, 1, Len(B64Marker)) = B64Marker
b64decode(s) == SubSeq(s, Len(B64Marker) + 1, Len(s))

\* One iteration of the loop of get_key_files (github_integration.py:108-120):
\* acc is the call so far, whose value is file_contents.
get_key_file_try(remote, filename, r) ==
    LET get == Request("GET", RepoUrl(remote) \o "/contents/" \o filename, NoJson)
    IN IF r.failed THEN Raised(r.text, <<get>>, <<>>)
       ELSE IF r.status = 200
       THEN IF ~r.valid THEN Raised(BadBody, <<get>>, <<>>)
            ELSE IF r.data.encoding = "base64"
            THEN IF IsB64(r.data.content)
                 THEN Returned({<<filename,
                                  Prefix(b64decode(r.data.content), KeyFileContentLimit)>>},
                               <<get>>, <<>>)
                 ELSE Raised("Incorrect padding", <<get>>, <<>>)
            ELSE Returned({}, <<get>>, <<>>)
       ELSE Returned({}, <<get>>, <<>>)

get_key_file(remote, filename, r) ==
    LET body == get_key_file_try(remote, filename, r)
    IN Catch(body, {}, "WARNING", "Could not read " \o filename \o ": ")

\* file_contents is the set of <<filename, content>> pairs read
RECURSIVE get_key_files_from(_, _, _)
get_key_files_from(remote, rs, i) ==
    IF i > Len(key_files) THEN Returned({}, <<>>, <<>>)
    ELSE LET one == get_key_file(remote, key_files[i], rs[i])
             rest == get_key_files_from(remote, rs, i + 1)
         IN IF one.raised THEN one
            ELSE IF rest.raised
            THEN Raised(rest.exc, one.sent \o rest.sent, one.logged \o rest.logged)
            ELSE Returned(one.value \cup rest.value, one.sent \o rest.sent,
                          one.logged \o rest.logged)

get_key_files(remote, rs) == WithRepoInfo(remote, get_key_files_from(remote, rs, 1))

RecentCommitCount == 10
ShortShaLen == 8

get_recent_commits_try(remote, count, r) ==
    LET get == Request("GET", RepoUrl(remote) \o "/commits?per_page=" \o ToString(count),
                       NoJson)
        c == r.data.commits
    IN IF r.failed THEN Raised(r.text, <<get>>, <<>>)
       ELSE IF r.status = 200
       THEN IF ~r.valid THEN Raised(BadBody, <<get>>, <<>>)
            ELSE Returned([i \in DOMAIN c |->
                             [sha |-> Prefix(c[i].sha, ShortShaLen),
                              message |-> Split(c[i].message, "\n")[1],
                              author |-> c[i].author,
                              date |-> c[i].date]],
                          <<get>>, <<>>)
       ELSE Returned(<<>>, <<get>>,
                     <<LogRec("ERROR", "Failed to get recent commits: "
                                        \o ToString(r.status))>>)

get_recent_commits(remote, count, r) ==
    WithRepoInfo(remote,
        Catch(get_recent_commits_try(remote, count, r), <<>>, "ERROR",
              "Error getting recent commits: "))

Paths(items) == [i \in DOMAIN items |-> items[i].path]

get_test_files(remote, r) ==
    LET structure == get_repository_structure(remote, r)
        IsTest(item) == Contains(Lower(item.path), "test") /\ EndsWith(item.path, ".py")
    IN IF structure.raised THEN structure
       ELSE Returned(Paths(SelectSeq(structure.value.tree, IsTest)),
                     structure.sent, structure.logged)

get_documentation_files(remote, r) ==
    LET structure == get_repository_structure(remote, r)
        IsDoc(item) == \E ind \in {"doc", "readme", ".md"} : Contains(Lower(item.path), ind)
    IN IF structure.raised THEN structure
       ELSE Returned(Paths(SelectSeq(structure.value.tree, IsDoc)),
                     structure.sent, structure.logged)

\* Variant: the status of the base-branch lookup is not tested
create_branch_try_unchecked(remote, branch_name, base_branch, r_get, r_post) ==
    LET get == Request("GET", RepoUrl(remote) \o "/git/refs/heads/" \o base_branch, NoJson)
        post == Request("POST", RepoUrl(remote) \o "/git/refs",
                        [ref |-> "refs/heads/" \o branch_name, sha |-> r_get.data.sha])
    IN IF r_get.failed THEN Raised(r_get.text, <<get>>, <<>>)
       ELSE IF ~r_get.valid THEN Raised(BadBody, <<get>>, <<>>)
       ELSE IF r_post.failed THEN Raised(r_post.text, <<get, post>>, <<>>)
       ELSE IF r_post.status = 201
       THEN Returned(TRUE, <<get, post>>,
                     <<LogRec("INFO", "Successfully created branch: " \o branch_name)>>)
       ELSE Returned(FALSE, <<get, post>>,
                     <<LogRec("ERROR", "Failed to create branch: "
                                        \o ToString(r_post.status) \o " - " \o r_post.text)>>)

\* create_branch, the body of its try block (github_integration.py:179-204)
create_branch_try(remote, branch_name, base_branch, r_get, r_post) ==
    LET get == Request("GET", RepoUrl(remote) \o "/git/refs/heads/" \o base_branch, NoJson)
        post == Request("POST", RepoUrl(remote) \o "/git/refs",
                        [ref |-> "refs/heads/" \o branch_name, sha |-> r_get.data.sha])
    IN IF r_get.failed THEN Raised(r_get.text, <<get>>, <<>>)
       ELSE IF r_get.status # 200
       THEN Returned(FALSE, <<get>>,
                     <<LogRec("ERROR", "Failed to get base branch SHA: "
                                        \o ToString(r_get.status))>>)
       ELSE IF ~r_get.valid THEN Raised(BadBody, <<get>>, <<>>)
       ELSE IF r_post.failed THEN Raised(r_post.text, <<get, post>>, <<>>)
       ELSE IF r_post.status = 201
       THEN Returned(TRUE, <<get, post>>,
                     <<LogRec("INFO", "Successfully created branch: " \o branch_name)>>)
       ELSE Returned(FALSE, <<get, post>>,
                     <<LogRec("ERROR", "Failed to create branch: "
                                        \o ToString(r_post.status) \o " - " \o r_post.text)>>)

create_branch(remote, branch_name, base_branch, r_get, r_post) ==
    WithRepoInfo(remote,
        Catch(create_branch_try(remote, branch_name, base_branch, r_get, r_post),
              FALSE, "ERROR", "Error creating branch: "))

\* create_pull_request (github_integration.py:210-239)
create_pull_request_try(remote, pr_data, r) ==
    LET post == Request("POST", RepoUrl(remote) \o "/pulls", pr_data)
        \* pr_info['number'], pr_info['title'] (line 220), pr_info['html_url'] (line 224)
        IsMissing(k) == k \notin r.data.keys
        missing == SelectSeq(<<"number", "title", "html_url">>, IsMissing)
    IN IF r.failed THEN Raised(r.text, <<post>>, <<>>)
       ELSE IF r.status = 201
       THEN IF ~r.valid THEN Raised(BadBody, <<post>>, <<>>)
            ELSE IF missing # <<>> THEN Raised("'" \o missing[1] \o "'", <<post>>, <<>>)
            ELSE Returned([success |-> TRUE,
                           pr_number |-> r.data.number,
                           pr_url |-> r.data.html_url,
                           pr_data |-> r.data],
                          <<post>>,
                          <<LogRec("INFO", "Successfully created PR #"
                                            \o ToString(r.data.number) \o ": "
                                            \o r.data.title)>>)
       ELSE Returned([success |-> FALSE,
                      error |-> "HTTP " \o ToString(r.status) \o ": " \o r.text],
                     <<post>>,
                     <<LogRec("ERROR", "Failed to create PR: " \o ToString(r.status)
                                        \o " - " \o r.text)>>)

create_pull_request(remote, pr_data, r) ==
    LET body == create_pull_request_try(remote, pr_data, r)
    IN WithRepoInfo(remote,
         IF body.raised
         THEN Returned([success |-> FALSE, error |-> body.exc], body.sent,
                       Append(body.logged,
                              LogRec("ERROR", "Error creating pull request: " \o body.exc)))
         ELSE body)

\* comment_on_issue (github_integration.py:241-260)
comment_on_issue_try(remote, issue_number, comment, r) ==
    LET post == Request("POST", RepoUrl(remote) \o "/issues/" \o ToString(issue_number)
                                    \o "/comments",
                        [body |-> comment])
    IN IF r.failed THEN Raised(r.text, <<post>>, <<>>)
       ELSE IF r.status = 201
       THEN Returned(TRUE, <<post>>,
                     <<LogRec("INFO", "Successfully commented on issue #"
                                       \o ToString(issue_number))>>)
       ELSE Returned(FALSE, <<post>>,
                     <<LogRec("ERROR", "Failed to comment on issue: "
                                        \o ToString(r.status))>>)

comment_on_issue(remote, issue_number, comment, r) ==
    WithRepoInfo(remote,
        Catch(comment_on_issue_try(remote, issue_number, comment, r),
              FALSE, "ERROR", "Error commenting on issue: "))

\* update_file (github_integration.py:262-297)
update_file_try(remote, file_path, content, commit_message, branch, r_get, r_put) ==
    LET get == Request("GET", RepoUrl(remote) \o "/contents/" \o file_path
                                   \o "?ref=" \o branch, NoJson)
        has_sha == r_get.status = 200 /\ r_get.data.sha # ""
        data == [message |-> commit_message, content |-> b64encode(content),
                 branch |-> branch]
        put == Request("PUT", RepoUrl(remote) \o "/contents/" \o file_path,
                       IF has_sha THEN [message |-> data.message, content |-> data.content,
                                        branch |-> data.branch, sha |-> r_get.data.sha]
                       ELSE data)
    IN IF r_get.failed THEN Raised(r_get.text, <<get>>, <<>>)
       ELSE IF r_get.status = 200 /\ ~r_get.valid THEN Raised(BadBody, <<get>>, <<>>)
       ELSE IF r_put.failed THEN Raised(r_put.text, <<get, put>>, <<>>)
       ELSE IF r_put.status \in {200, 201}
       THEN Returned(TRUE, <<get, put>>,
                     <<LogRec("INFO", "Successfully updated file: " \o file_path)>>)
       ELSE Returned(FALSE, <<get, put>>,
                     <<LogRec("ERROR", "Failed to update file: " \o ToString(r_put.status)
                                        \o " - " \o r_put.text)>>)

update_file(remote, file_path, content, commit_message, branch, r_get, r_put) ==
    WithRepoInfo(remote,
        Catch(update_file_try(remote, file_path, content, commit_message, branch,
                              r_get, r_put),
              FALSE, "ERROR", "Error updating file " \o file_path \o ": "))

-----------------------------------------------------------------------------
(* The responses the remote gives to each request of the client *)

Tree1 ==
    <<[path |-> "src", type |-> "tree"],
      [path |-> "src/main.py", type |-> "blob"],
      [path |-> "tests", type |-> "tree"],
      [path |-> "tests/test_main.py", type |-> "blob"],
      [path |-> "README.md", type |-> "blob"]>>

Tree2 ==
    Tree1 \o <<[path |-> "docs", type |-> "tree"],
               [path |-> "docs/guide.md", type |-> "blob"],
               [path |-> "tests/test_auth.py", type |-> "blob"],
               [path |-> "Makefile", type |-> "blob"]>>

TreeResponses == ResponsesOf({[tree |-> Tree1], [tree |-> Tree2]}, [tree |-> <<>>])

RECURSIVE Repeat(_, _)
Repeat(s, n) ==
    IF n = 0 THEN ""
    ELSE LET half == Repeat(s, n \div 2)
         IN IF n % 2 = 0 THEN half \o half ELSE half \o half \o s

NoContent == [encoding |-> "", content |-> ""]

KeyFileResponses ==
    {Transport(NoContent),
     Http(404, FALSE, NoContent, "Not Found"),
     Http(200, FALSE, NoContent, "not json"),
     Http(200, TRUE, [encoding |-> "base64", content |-> b64encode("# demo")], "ok"),
     Http(200, TRUE, [encoding |-> "base64",
                      content |-> b64encode(Repeat("x", KeyFileContentLimit + 1))], "ok"),
     Http(200, TRUE, [encoding |-> "base64", content |-> "%%%"], "ok"),
     Http(200, TRUE, [encoding |-> "none", content |-> ""], "ok")}

\* One response per key file: every response for the first two files, found
\* or not found for the others
KeyFileSequences ==
    {<<r1, r2, r3, r4>> :
        r1 \in KeyFileResponses, r2 \in KeyFileResponses,
        r3 \in {r \in KeyFileResponses : r.status = 404},
        r4 \in {r \in KeyFileResponses : r.valid /\ r.data.content = b64encode("# demo")}
                  \cup {r \in KeyFileResponses : r.status = 404}}

CommitResponses ==
    ResponsesOf({[commits |-> <<[sha |-> "0123456789abcdef",
                                 message |-> "Fix bug\n\nDetails",
                                 author |-> "alice",
                                 date |-> "2024-01-01T00:00:00Z"]>>]},
                [commits |-> <<>>])

RefResponses == ResponsesOf({[sha |-> "abc123"]}, [sha |-> ""])

CreateRefResponses == ResponsesOf({[ref |-> "refs/heads/new"]}, [ref |-> ""])

PullKeys == {"number", "title", "html_url"}

PullData(n, keys) ==
    [number |-> n, title |-> "Created", keys |-> keys,
     html_url |-> "https://github.com/o/r/pull/" \o ToString(n)]

PullResponses ==
    ResponsesOf({PullData(n, k) : n \in {456, 457},
                                  k \in {PullKeys, PullKeys \ {"title"}}},
                PullData(0, {}))

CommentResponses == ResponsesOf({[id |-> 1]}, [id |-> 0])

ContentResponses == ResponsesOf({[sha |-> "f00"], [sha |-> ""]}, [sha |-> ""])

PutResponses == ResponsesOf({[commit |-> "c0"]}, [commit |-> ""])

-----------------------------------------------------------------------------
(* agents/crew_manager.py *)

\* dict.get(key, default)
Get(d, k, default) == IF k \in DOMAIN d THEN d[k] ELSE default

pipeline == <<"planner", "coder", "tester", "documenter", "deployer">>
all_roles == {"planner", "coder", "tester", "documenter", "deployer", "evolver", "triager"}

\* A prompt template is a sequence of segments of a Python format string:
\*   lit      literal text                      escaped  "{{" or "}}"
\*   field    {name}                            auto     {} or {0}
\*   attr     {name.attr}                       brace    a single "{" or "}"
Lit(text) == [kind |-> "lit", text |-> text]
Field(name) == [kind |-> "field", text |-> name]
Escaped(text) == [kind |-> "escaped", text |-> text]
Auto(text) == [kind |-> "auto", text |-> text]
Attr(name) == [kind |-> "attr", text |-> name]
Brace(text) == [kind |-> "brace", text |-> text]

\* The template string itself
SegmentSource(seg) ==
    CASE seg.kind = "lit" -> seg.text
      [] seg.kind = "field" -> "{" \o seg.text \o "}"
      [] seg.kind = "escaped" -> seg.text \o seg.text
      [] seg.kind = "auto" -> "{" \o seg.text \o "}"
      [] seg.kind = "attr" -> "{" \o seg.text \o ".name}"
      [] seg.kind = "brace" -> seg.text

RECURSIVE TemplateSource(_)
TemplateSource(t) ==
    IF t = <<>> THEN "" ELSE SegmentSource(Head(t)) \o TemplateSource(Tail(t))

\* One replacement field of str.format(**context): the text it yields or the
\* exception it raises, as [error |-> exception type or "", text |-> ...]
format_field(seg, context) ==
    CASE seg.kind = "lit" -> [error |-> "", text |-> seg.text]
      [] seg.kind = "escaped" -> [error |-> "", text |-> seg.text]
      [] seg.kind = "field" ->
            IF seg.text \in DOMAIN context
            THEN [error |-> "", text |-> context[seg.text]]
            ELSE [error |-> "KeyError", text |-> "'" \o seg.text \o "'"]
      [] seg.kind = "attr" ->
            IF seg.text \in DOMAIN context
            THEN [error |-> "AttributeError",
                  text |-> "'str' object has no attribute 'name'"]
            ELSE [error |-> "KeyError", text |-> "'" \o seg.text \o "'"]
      [] seg.kind = "auto" ->
            [error |-> "IndexError",
             text |-> "Replacement index 0 out of range for positional args tuple"]
      [] seg.kind = "brace" ->
            [error |-> "ValueError",
             text |-> "Single '" \o seg.text \o "' encountered in format string"]

\* str.format(**context), left to right: the first segment that fails raises.
\* The result is [error |-> exception type or "", text |-> output or message].
RECURSIVE str_format_from(_, _, _)
str_format_next(one, t, context, done) ==
    IF one.error # "" THEN one
    ELSE str_format_from(Tail(t), context, done \o one.text)

str_format_from(t, context, done) ==
    IF t = <<>> THEN [error |-> "", text |-> done]
    ELSE str_format_next(format_field(Head(t), context), t, context, done)

str_format(t, context) == str_format_from(t, context, "")

\* Variant: a missing variable gives the empty prompt
format_prompt_except_blank(template, f) ==
    IF f.error = "" THEN Returned(f.text, <<>>, <<>>)
    ELSE IF f.error = "KeyError"
    THEN Returned("", <<>>,
                  <<LogRec("WARNING", "Missing context variable " \o f.text
                                       \o " in prompt template")>>)
    ELSE Raised(f.text, <<>>, <<>>)

\* The except clause of _format_prompt (crew_manager.py:256-259): only
\* KeyError is caught, and the template is returned as it is
format_prompt_except(template, f) ==
    IF f.error = "" THEN Returned(f.text, <<>>, <<>>)
    ELSE IF f.error = "KeyError"
    THEN Returned(TemplateSource(template), <<>>,
                  <<LogRec("WARNING", "Missing context variable " \o f.text
                                       \o " in prompt template")>>)
    ELSE Raised(f.text, <<>>, <<>>)

\* _format_prompt (crew_manager.py:253-259)
_format_prompt(template, context) ==
    format_prompt_except(template, str_format(template, context))

\* config.get('agents', {}).get(role, {}).get('prompt_template', '')
prompt_template(cfg, role) == Get(Get(cfg, role, <<>>), "prompt_template", <<>>)

expected_outputs ==
    <<"Detailed implementation plan in structured format with task breakdown, file impact assessment, and testing strategy",
      "Complete code implementation with proper error handling, type hints, and documentation",
      "Comprehensive test suite with unit tests, integration tests, and edge case coverage",
      "Updated documentation including API docs, user guides, and developer documentation",
      "Deployment configuration updates and deployment scripts if needed">>

\* The extra context entry of each step (crew_manager.py:211,222,233,244)
step_extra ==
    <<<<>>,
      <<"plan", "{planning_task_output}">>,
      <<"implementation", "{implementation_task_output}">>,
      <<"implementation", "{implementation_task_output}">>,
      <<"implementation", "{implementation_task_output}">>>>

\* Variant: the implementation step takes the testing step as its context
step_context_forward == << <<>>, <<3>>, <<2>>, <<2>>, <<2>> >>

\* The context=[...] argument of each step, as positions in the task list
\* (crew_manager.py:215,226,237,248); the planning task has none.
step_context == << <<>>, <<1>>, <<2>>, <<2>>, <<2>> >>

\* The context a step's prompt is rendered with: {**context, extra: ...}
step_prompt_context(context, i) ==
    IF step_extra[i] = <<>> THEN context
    ELSE (step_extra[i][1] :> step_extra[i][2]) @@ context

\* Variant: the agent is looked up with a default, a missing role is no error
Task_any_agent(roster, i, description) ==
    IF description.raised THEN description
    ELSE Returned([agent |-> pipeline[i],
                   description |-> description.value,
                   expected_output |-> expected_outputs[i],
                   context |-> step_context[i]],
                  <<>>, description.logged)

\* Task(description=..., agent=self.agents[role], ...): the description is
\* evaluated before the agent is looked up
Task(roster, i, description) ==
    IF description.raised THEN description
    ELSE IF pipeline[i] \notin roster
    THEN Raised("'" \o pipeline[i] \o "'", <<>>, description.logged)
    ELSE Returned([agent |-> pipeline[i],
                   description |-> description.value,
                   expected_output |-> expected_outputs[i],
                   context |-> step_context[i]],
                  <<>>, description.logged)

\* One Task(...) of _create_tasks
create_task(roster, cfg, context, i) ==
    Task(roster, i,
         _format_prompt(prompt_template(cfg, pipeline[i]), step_prompt_context(context, i)))

\* The list [planning_task, ...] of _create_tasks, built in order: a step
\* that raises ends the construction
tasks_list(one, rest) ==
    IF one.raised THEN one
    ELSE IF rest.raised THEN Raised(rest.exc, <<>>, one.logged \o rest.logged)
    ELSE Returned(<<one.value>> \o rest.value, <<>>, one.logged \o rest.logged)

\* _create_tasks (crew_manager.py:193-251)
RECURSIVE create_tasks_from(_, _, _, _)
create_tasks_from(roster, cfg, context, i) ==
    IF i > Len(pipeline) THEN Returned(<<>>, <<>>, <<>>)
    ELSE tasks_list(create_task(roster, cfg, context, i),
                    create_tasks_from(roster, cfg, context, i + 1))

_create_tasks(roster, cfg, context) == create_tasks_from(roster, cfg, context, 1)

SummaryLimit == 1000

\* _extract_task_output (crew_manager.py:312-320): output is the text of
\* task.output ("" when the task has none), str_raises whether str() of it raises
_extract_task_output(output) ==
    IF output.text # ""
    THEN IF output.str_raises
         THEN Returned("Task output extraction failed", <<>>,
                       <<LogRec("WARNING", "Could not extract task output: "
                                            \o "__str__ returned non-string")>>)
         ELSE Returned(Prefix(output.text, SummaryLimit), <<>>, <<>>)
    ELSE Returned("Task completed but no detailed output available", <<>>, <<>>)

\* _extract_file_changes (crew_manager.py:322-330)
_extract_file_changes ==
    <<[file |-> "src/main.py", description |-> "Updated based on evolution request"],
      [file |-> "tests/", description |-> "Added comprehensive test coverage"],
      [file |-> "docs/", description |-> "Updated documentation"]>>

\* Variant: every summary is taken from the aggregate result of the run
summary_of_aggregate(run, tasks, i, none) == _extract_task_output(run.result)

\* self._extract_task_output(tasks[i]) if len(tasks) > i else <none>
\* (crew_manager.py:303-307)
summary_of(run, tasks, i, none) ==
    IF Len(tasks) > i - 1 THEN _extract_task_output(run.outputs[i])
    ELSE Returned(none, <<>>, <<>>)

\* The dictionary of _process_crew_result (crew_manager.py:301-310)
crew_result(run, o1, o2, o3, o4, o5) ==
    IF run.result.str_raises
    THEN Raised("__str__ returned non-string", <<>>,
                o1.logged \o o2.logged \o o3.logged \o o4.logged \o o5.logged)
    ELSE Returned([success |-> TRUE,
                   planning_summary |-> o1.value,
                   implementation_summary |-> o2.value,
                   testing_summary |-> o3.value,
                   documentation_summary |-> o4.value,
                   deployment_notes |-> o5.value,
                   file_changes |-> _extract_file_changes,
                   full_result |-> run.result.text],
                  <<>>, o1.logged \o o2.logged \o o3.logged \o o4.logged \o o5.logged)

\* _process_crew_result (crew_manager.py:299-310): run is what the crew run
\* left behind, the output of each task and the aggregate result
_process_crew_result(run, tasks) ==
    crew_result(run,
                summary_of(run, tasks, 1, "No planning performed"),
                summary_of(run, tasks, 2, "No implementation performed"),
                summary_of(run, tasks, 3, "No testing performed"),
                summary_of(run, tasks, 4, "No documentation updated"),
                summary_of(run, tasks, 5, "No deployment configuration"))

\* The result record of the except clause (crew_manager.py:288-297)
workflow_failure(e) ==
    [success |-> FALSE,
     error |-> e,
     planning_summary |-> "Workflow failed during execution",
     implementation_summary |-> "No implementation completed",
     testing_summary |-> "No tests created",
     documentation_summary |-> "No documentation updated",
     deployment_notes |-> "Deployment not configured",
     file_changes |-> <<>>]

\* A call of the crew manager: kickoffs counts the crew runs it started
Ran(call, n) ==
    [raised |-> call.raised, exc |-> call.exc, value |-> call.value,
     sent |-> call.sent, logged |-> call.logged, kickoffs |-> n]

\* crew_manager.py:283-286: the processed result is logged and returned
workflow_processed(tasks, processed) ==
    IF processed.raised
    THEN Ran(Raised(processed.exc, <<>>, tasks.logged \o processed.logged), 1)
    ELSE Ran(Returned(processed.value, <<>>,
                      tasks.logged \o processed.logged
                         \o <<LogRec("INFO",
                                     "CrewAI evolution workflow completed successfully")>>),
             1)

\* crew_manager.py:270-283: Crew(...), crew.kickoff(), _process_crew_result.
\* run is the third-party crew: crew_error is what Crew(...) raises ("" if
\* nothing), kickoff_error what crew.kickoff raises.
workflow_run(run, tasks) ==
    IF tasks.raised THEN Ran(tasks, 0)
    ELSE IF run.crew_error # "" THEN Ran(Raised(run.crew_error, <<>>, tasks.logged), 0)
    ELSE IF run.kickoff_error # ""
    THEN Ran(Raised(run.kickoff_error, <<>>, tasks.logged), 1)
    ELSE workflow_processed(tasks, _process_crew_result(run, tasks.value))

\* The try block of execute_evolution_workflow (crew_manager.py:265-286)
execute_evolution_workflow_try(roster, cfg, context, run) ==
    workflow_run(run, _create_tasks(roster, cfg, context))

\* Variant: no except clause, the exception leaves execute_evolution_workflow
workflow_except_nothing(body) ==
    [body EXCEPT !.logged =
         <<LogRec("INFO", "Starting CrewAI evolution workflow")>> \o @]

\* The except clause of execute_evolution_workflow (crew_manager.py:286-297)
workflow_except(body) ==
    IF body.raised
    THEN [raised |-> FALSE, exc |-> "", value |-> workflow_failure(body.exc),
          sent |-> <<>>, kickoffs |-> body.kickoffs,
          logged |-> <<LogRec("INFO", "Starting CrewAI evolution workflow")>>
                        \o body.logged
                        \o <<LogRec("ERROR", "CrewAI workflow failed: " \o body.exc)>>]
    ELSE [body EXCEPT !.logged =
                 <<LogRec("INFO", "Starting CrewAI evolution workflow")>> \o @]

\* execute_evolution_workflow (crew_manager.py:261-297)
execute_evolution_workflow(roster, cfg, context, run) ==
    workflow_except(execute_evolution_workflow_try(roster, cfg, context, run))

\* crew_manager.py:340-357: Task(...), Crew(...), kickoff, the closing log
analysis_run(roster, run, description) ==
    IF description.raised THEN Ran(description, 0)
    ELSE IF "evolver" \notin roster
    THEN Ran(Raised("'evolver'", <<>>, description.logged), 0)
    ELSE IF run.crew_error # ""
    THEN Ran(Raised(run.crew_error, <<>>, description.logged), 0)
    ELSE IF run.kickoff_error # ""
    THEN Ran(Raised(run.kickoff_error, <<>>, description.logged), 1)
    ELSE Ran(Returned(NoValue, <<>>,
                      Append(description.logged,
                             LogRec("INFO",
                                    "Evolution insights stored for future improvements"))),
             1)

\* The try block of trigger_evolution_analysis (crew_manager.py:336-357)
trigger_evolution_analysis_try(roster, cfg, evolution_data, run) ==
    analysis_run(roster, run,
                 _format_prompt(prompt_template(cfg, "evolver"), evolution_data))

\* Variant: the exception of the analysis is logged and raised again
analysis_except_reraise(body) ==
    IF body.raised
    THEN [body EXCEPT !.logged =
                 <<LogRec("INFO",
                          "Triggering evolution analysis for system improvement")>>
                    \o @ \o <<LogRec("ERROR", "Evolution analysis failed: " \o body.exc)>>]
    ELSE [body EXCEPT !.logged =
                 <<LogRec("INFO",
                          "Triggering evolution analysis for system improvement")>> \o @]

\* The except clause of trigger_evolution_analysis (crew_manager.py:359-361)
analysis_except(body) ==
    IF body.raised
    THEN [raised |-> FALSE, exc |-> "", value |-> NoValue, sent |-> <<>>,
          kickoffs |-> body.kickoffs,
          logged |-> <<LogRec("INFO",
                              "Triggering evolution analysis for system improvement")>>
                        \o body.logged
                        \o <<LogRec("ERROR", "Evolution analysis failed: " \o body.exc)>>]
    ELSE [body EXCEPT !.logged =
                 <<LogRec("INFO",
                          "Triggering evolution analysis for system improvement")>> \o @]

\* trigger_evolution_analysis (crew_manager.py:332-361)
trigger_evolution_analysis(roster, cfg, evolution_data, run) ==
    analysis_except(trigger_evolution_analysis_try(roster, cfg, evolution_data, run))

-----------------------------------------------------------------------------
(* The third-party crew as the coordinator sees it, and configurations *)

Output(text) == [text |-> text, str_raises |-> FALSE]

RunOk ==
    [crew_error |-> "", kickoff_error |-> "",
     outputs |-> <<Output("plan: add a login route"), Output("code: auth.py"),
                   Output("tests: test_auth.py"), Output("docs: README"),
                   Output("deploy: nothing to do")>>,
     result |-> Output("deploy: nothing to do")]

RunKickoffFails == [RunOk EXCEPT !.kickoff_error = "Rate limit exceeded"]

\* The agents section of tests/test_agents.py:42-55
TestConfig ==
    ("planner" :> [role |-> "Strategic Planning Agent",
                   prompt_template |-> <<Lit("Plan: "), Field("issue_title")>>])
    @@ ("coder" :> [role |-> "Implementation Agent",
                    prompt_template |-> <<Lit("Code: "), Field("task_description")>>])

-----------------------------------------------------------------------------
(* agents/orchestrator.py *)

Requests ==
    {[issue_number |-> 123, title |-> "Add auth", body |-> "Need JWT login",
      repository |-> "o/r", branch_name |-> "evolution-issue-123"],
     [issue_number |-> 7, title |-> "Fix typo", body |-> "",
      repository |-> "o/r", branch_name |-> "fix-7"]}

\* _format_file_changes (orchestrator.py:191-200); a backtick is written ^
_format_file_changes(file_changes) ==
    IF file_changes = <<>> THEN "No file changes reported"
    ELSE Join("\n", [i \in DOMAIN file_changes |->
                        "- ^" \o file_changes[i].file \o "^: "
                              \o file_changes[i].description])

\* _generate_pr_description (orchestrator.py:150-189)
_generate_pr_description(req, wr) ==
    "\n# AI Evolution: " \o req.title \o "\n\n"
    \o "## Original Request\nResolves #" \o ToString(req.issue_number) \o "\n\n"
    \o req.body \o "\n\n"
    \o "## AI Implementation Summary\n\n"
    \o "### Planning Phase\n"
    \o Get(wr, "planning_summary", "No planning summary available") \o "\n\n"
    \o "### Implementation\n"
    \o Get(wr, "implementation_summary", "No implementation summary available") \o "\n\n"
    \o "### Testing\n"
    \o Get(wr, "testing_summary", "No testing summary available") \o "\n\n"
    \o "### Documentation Updates\n"
    \o Get(wr, "documentation_summary", "No documentation summary available") \o "\n\n"
    \o "## Files Changed\n"
    \o _format_file_changes(Get(wr, "file_changes", <<>>)) \o "\n\n"
    \o "## Quality Checks\n- [ ] All tests passing\n- [ ] Code coverage maintained\n"
    \o "- [ ] Documentation updated\n- [ ] Security scan passed\n"
    \o "- [ ] Performance impact assessed\n\n"
    \o "## Deployment Notes\n"
    \o Get(wr, "deployment_notes", "Standard deployment process") \o "\n\n"
    \o "---\n*This PR was generated automatically by AI agents. "
    \o "Please review thoroughly before merging.*\n"

\* Variant: the title is the request title as it is
pr_data_untitled(req, wr) ==
    [title |-> req.title,
     body |-> _generate_pr_description(req, wr),
     head |-> req.branch_name,
     base |-> "main"]

\* pr_data of _create_pull_request (orchestrator.py:140-145)
pr_data_of(req, wr) ==
    [title |-> "[AI Evolution] " \o req.title,
     body |-> _generate_pr_description(req, wr),
     head |-> req.branch_name,
     base |-> "main"]

\* failure_comment of _handle_evolution_failure (orchestrator.py:220-237)
failure_comment(error_message) ==
    "\n**Evolution Process Failed**\n\n"
    \o "The AI agent workflow encountered an error while processing this evolution request.\n\n"
    \o "**Error Details:**\n^^^\n" \o error_message \o "\n^^^\n\n"
    \o "**Next Steps:**\n1. Review the error details above\n"
    \o "2. Check if the issue description needs clarification\n"
    \o "3. Verify that all requirements are clearly specified\n"
    \o "4. Re-trigger the evolution by commenting ^/retry-evolution^\n\n"
    \o "The development team has been notified and will investigate the issue.\n"

\* str() of the repository context as str.format renders it, abbreviated to
\* the parts that vary: the summary and the three file lists
context_repr(ctx) ==
    LET names == SelectSeq(key_files,
                           LAMBDA f : \E p \in ctx["key_files"] : p[1] = f)
    IN "{'structure': '" \o ctx["structure"].structure_summary
       \o "', 'key_files': [" \o Join(", ", names)
       \o "], 'recent_changes': " \o ToString(Len(ctx["recent_changes"]))
       \o ", 'existing_tests': [" \o Join(", ", ctx["existing_tests"])
       \o "], 'documentation': [" \o Join(", ", ctx["documentation"]) \o "]}"

\* workflow_input of _execute_agent_workflow (orchestrator.py:123-129), each
\* value as str.format renders it
workflow_input(req, ctx) ==
    [issue_number |-> ToString(req.issue_number),
     issue_title |-> req.title,
     issue_body |-> req.body,
     repository_context |-> context_repr(ctx),
     branch_name |-> req.branch_name]

\* evolution_data of _post_process_evolution (orchestrator.py:207-211), each
\* value as str.format renders it, abbreviated
evolution_data(req, wr, pr) ==
    [original_request |-> "{'issue_number': " \o ToString(req.issue_number) \o "}",
     workflow_result |-> "{'success': True}",
     pr_result |-> IF pr.success THEN "{'success': True}" ELSE "{'success': False}"]

\* The responses drawn during a run: a subset of each request's responses
\* (success, one HTTP failure, and for some requests a transport failure)
Succeeds(r, status) == ~r.failed /\ r.status = status /\ r.valid
Fails(r, status) == ~r.failed /\ r.status = status /\ ~r.valid

RunTreeResponses == {r \in TreeResponses : Succeeds(r, 200) \/ Fails(r, 500)}
RunKeyFileResponses ==
    LET ok == Http(200, TRUE, [encoding |-> "base64", content |-> b64encode("# demo")], "ok")
        missing == Http(404, FALSE, NoContent, "Not Found")
    IN {<<ok, ok, missing, missing>>,
        <<Transport(NoContent), missing, missing, missing>>}
RunCommitResponses == {r \in CommitResponses : Succeeds(r, 200) \/ r.failed}
RunRefResponses == {r \in RefResponses : Succeeds(r, 200) \/ Fails(r, 404)}
RunCreateRefResponses == {r \in CreateRefResponses : Succeeds(r, 201) \/ Fails(r, 500)}
RunPullResponses ==
    {r \in PullResponses :
        \/ Succeeds(r, 201) /\ r.data.number = 456 /\ r.data.keys = PullKeys
        \/ Fails(r, 500)
        \/ r.failed}
RunCommentResponses == {r \in CommentResponses : Succeeds(r, 201) \/ Fails(r, 500)}
RunCrews == {RunOk, RunKickoffFails}

\* An exception that escapes an awaited stage: the stages under src/ swallow
\* their own errors, so this is the exception of a substituted collaborator
\* (tests/test_agents.py:413 raises asyncio.TimeoutError("Agent timeout")).
StageErrors == {"Agent timeout"}

Rosters == {all_roles, {"planner", "coder", "tester"}, {}}

Init ==
    /\ app_features = InitialFeatures
    /\ evolution_log = <<>>
    /\ git_remote \in {g \in GitRemotes : g.ran /\ g.url # ""}
    /\ config = TestConfig
    /\ agents \in Rosters
    /\ request \in Requests
    /\ pc = "gather_structure"
    /\ calls = <<>>
    /\ http_log = <<>>
    /\ logs = <<>>
    /\ kickoffs = 0
    /\ repo_context = <<>>
    /\ workflow_result = <<>>
    /\ pr_result = <<>>
    /\ error = ""
    /\ returned = "pending"
    /\ op = ""
    /\ responses = <<>>
    /\ result = <<>>
    /\ env = <<>>
    /\ args = <<>>
    /\ report = ""
    /\ exit_code = -1

\* What every step does with the call it awaited: the requests and log
\* records of the call are appended; an exception goes to the except clause
\* (orchestrator.py:99-100), anything else to the next statement.
Await(call, before, next) ==
    /\ http_log' = http_log \o call.sent
    /\ kickoffs' = kickoffs + Get(call, "kickoffs", 0)
    /\ IF call.raised
       THEN /\ pc' = "handle_failure"
            /\ error' = call.exc
            /\ logs' = logs \o before \o call.logged
                          \o <<LogRec("ERROR", "Evolution process failed: " \o call.exc)>>
       ELSE /\ pc' = next
            /\ error' = error
            /\ logs' = logs \o before \o call.logged

\* One entry of the dictionary of _gather_repository_context
\* (orchestrator.py:106-116)
Gathered(call, before, next, key) ==
    /\ Await(call, before, next)
    /\ repo_context' = IF call.raised THEN repo_context
                       ELSE (key :> call.value) @@ repo_context

\* orchestrator.py:74-78 and 106-109
GatherStructure ==
    /\ pc = "gather_structure"
    /\ \E r \in RunTreeResponses :
         Gathered(get_repository_structure(git_remote, r),
                  <<LogRec("INFO", "Starting evolution process for issue #"
                                    \o ToString(request.issue_number)),
                    LogRec("INFO", "Gathering repository context...")>>,
                  "gather_key_files", "structure")
    /\ calls' = Append(calls, "_gather_repository_context")
    /\ UNCHANGED <<run_fixed, workflow_result, pr_result,
                   returned>>

\* orchestrator.py:110
GatherKeyFiles ==
    /\ pc = "gather_key_files"
    /\ \E rs \in RunKeyFileResponses :
         Gathered(get_key_files(git_remote, rs), <<>>, "gather_commits", "key_files")
    /\ UNCHANGED <<run_fixed, calls, workflow_result,
                   pr_result, returned>>

\* orchestrator.py:111
GatherCommits ==
    /\ pc = "gather_commits"
    /\ \E r \in RunCommitResponses :
         Gathered(get_recent_commits(git_remote, RecentCommitCount, r), <<>>,
                  "gather_tests", "recent_changes")
    /\ UNCHANGED <<run_fixed, calls, workflow_result,
                   pr_result, returned>>

\* orchestrator.py:112
GatherTests ==
    /\ pc = "gather_tests"
    /\ \E r \in RunTreeResponses :
         Gathered(get_test_files(git_remote, r), <<>>, "gather_docs", "existing_tests")
    /\ UNCHANGED <<run_fixed, calls, workflow_result,
                   pr_result, returned>>

\* orchestrator.py:113-116
GatherDocs ==
    /\ pc = "gather_docs"
    /\ \E r \in RunTreeResponses :
         Gathered(get_documentation_files(git_remote, r), <<>>, "create_branch",
                  "documentation")
    /\ UNCHANGED <<run_fixed, calls, workflow_result,
                   pr_result, returned>>

\* orchestrator.py:81: the returned boolean is dropped
CreateBranch ==
    /\ pc = "create_branch"
    /\ \E r_get \in RunRefResponses, r_post \in RunCreateRefResponses :
         Await(create_branch(git_remote, request.branch_name, "main", r_get, r_post),
               <<>>, "workflow")
    /\ calls' = Append(calls, "create_branch")
    /\ UNCHANGED <<run_fixed, repo_context, workflow_result,
                   pr_result, returned>>

\* Variant: the success field of the workflow result is not tested
WorkflowReturned_unchecked(call) ==
    /\ Await(call, <<LogRec("INFO", "Executing agent workflow...")>>, "create_pr")
    /\ workflow_result' = IF call.raised THEN workflow_result ELSE call.value
    /\ returned' = returned

\* orchestrator.py:84-88: the workflow has returned; a result without success
\* ends the run with False
WorkflowReturned(call) ==
    /\ http_log' = http_log \o call.sent
    /\ kickoffs' = kickoffs + call.kickoffs
    /\ pc' = IF call.raised THEN "handle_failure"
             ELSE IF call.value.success THEN "create_pr" ELSE "done"
    /\ error' = IF call.raised THEN call.exc ELSE error
    /\ workflow_result' = IF call.raised THEN workflow_result ELSE call.value
    /\ returned' = IF ~call.raised /\ ~call.value.success THEN "False" ELSE returned
    /\ logs' = logs \o <<LogRec("INFO", "Executing agent workflow...")>>
                    \o call.logged
                    \o IF call.raised
                       THEN <<LogRec("ERROR", "Evolution process failed: " \o call.exc)>>
                       ELSE IF call.value.success THEN <<>>
                       ELSE <<LogRec("ERROR", "Agent workflow failed")>>

\* Variant: the workflow is started without creating the branch
ExecuteWorkflow_before_branch ==
    /\ pc = "create_branch"
    /\ \E run \in RunCrews :
         WorkflowReturned(execute_evolution_workflow(
                              agents, config, workflow_input(request, repo_context), run))
    /\ calls' = Append(calls, "_execute_agent_workflow")
    /\ UNCHANGED <<run_fixed, repo_context, pr_result>>

\* orchestrator.py:84-88 and 118-134
ExecuteWorkflow ==
    /\ pc = "workflow"
    /\ \E run \in RunCrews :
         WorkflowReturned(execute_evolution_workflow(
                              agents, config, workflow_input(request, repo_context), run))
    /\ calls' = Append(calls, "_execute_agent_workflow")
    /\ UNCHANGED <<run_fixed, repo_context, pr_result>>

\* Variant: the pull request is requested a second time
PullRequestReturned_retried(call) ==
    /\ Await([call EXCEPT !.sent = @ \o @],
             <<LogRec("INFO", "Creating pull request...")>>, "post_process")
    /\ pr_result' = IF call.raised THEN pr_result ELSE call.value

\* orchestrator.py:91
PullRequestReturned(call) ==
    /\ Await(call, <<LogRec("INFO", "Creating pull request...")>>, "post_process")
    /\ pr_result' = IF call.raised THEN pr_result ELSE call.value

\* orchestrator.py:91 and 136-148
CreatePullRequest ==
    /\ pc = "create_pr"
    /\ \E r \in RunPullResponses :
         PullRequestReturned(
             create_pull_request(git_remote, pr_data_of(request, workflow_result), r))
    /\ calls' = Append(calls, "_create_pull_request")
    /\ UNCHANGED <<run_fixed, repo_context, workflow_result,
                   returned>>

\* orchestrator.py:94-97: post-processing has returned, the run returns True
PostProcessed(call) ==
    /\ http_log' = http_log \o call.sent
    /\ kickoffs' = kickoffs + call.kickoffs
    /\ pc' = IF call.raised THEN "handle_failure" ELSE "done"
    /\ error' = IF call.raised THEN call.exc ELSE error
    /\ returned' = IF call.raised THEN returned ELSE "True"
    /\ logs' = logs \o <<LogRec("INFO", "Post-processing evolution results...")>>
                    \o call.logged
                    \o IF call.raised
                       THEN <<LogRec("ERROR", "Evolution process failed: " \o call.exc)>>
                       ELSE <<LogRec("INFO",
                                     "Evolution process completed successfully for issue #"
                                        \o ToString(request.issue_number))>>

\* orchestrator.py:94-97 and 202-213
PostProcess ==
    /\ pc = "post_process"
    /\ \E run \in RunCrews :
         PostProcessed(trigger_evolution_analysis(
                           agents, config,
                           evolution_data(request, workflow_result, pr_result), run))
    /\ calls' = Append(calls, "_post_process_evolution")
    /\ UNCHANGED <<run_fixed, repo_context, workflow_result,
                   pr_result>>

\* The stage whose call is at each position of the try block
stage_at ==
    [gather_structure |-> "_gather_repository_context",
     create_branch |-> "create_branch",
     workflow |-> "_execute_agent_workflow",
     create_pr |-> "_create_pull_request",
     post_process |-> "_post_process_evolution"]

\* orchestrator.py:76-100: the awaited stage raises, the except clause logs it
StageRaises ==
    /\ pc \in DOMAIN stage_at
    /\ \E e \in StageErrors :
         /\ error' = e
         /\ logs' = logs \o <<LogRec("ERROR", "Evolution process failed: " \o e)>>
    /\ calls' = Append(calls, stage_at[pc])
    /\ pc' = "handle_failure"
    /\ UNCHANGED <<run_fixed, http_log, kickoffs, repo_context,
                   workflow_result, pr_result, returned>>

\* Variant: the failure is logged but no comment is sent
FailureHandled_silent(call) ==
    /\ http_log' = http_log
    /\ logs' = Append(logs, LogRec("ERROR", "Handling evolution failure for issue #"
                                              \o ToString(request.issue_number)))
    /\ returned' = "False"

\* orchestrator.py:226-239: the comment is posted, whatever comes back
FailureHandled(call) ==
    /\ http_log' = http_log \o call.sent
    /\ logs' = logs \o <<LogRec("ERROR", "Handling evolution failure for issue #"
                                          \o ToString(request.issue_number))>>
                    \o call.logged
    /\ returned' = IF call.raised THEN "raised" ELSE "False"

\* orchestrator.py:101-102 and 215-239
HandleFailure ==
    /\ pc = "handle_failure"
    /\ \E r \in RunCommentResponses :
         FailureHandled(comment_on_issue(git_remote, request.issue_number,
                                         failure_comment(error), r))
    /\ calls' = Append(calls, "_handle_evolution_failure")
    /\ pc' = "done"
    /\ UNCHANGED <<run_fixed, kickoffs, repo_context,
                   workflow_result, pr_result, error>>

Next ==
    \/ GatherStructure
    \/ GatherKeyFiles
    \/ GatherCommits
    \/ GatherTests
    \/ GatherDocs
    \/ CreateBranch
    \/ ExecuteWorkflow
    \/ CreatePullRequest
    \/ PostProcess
    \/ StageRaises
    \/ HandleFailure

Spec == Init /\ [][Next]_vars

-----------------------------------------------------------------------------
(* Properties of a run of process_evolution_request *)

\* The stages of the try block, in the order the code calls them
StageOrder ==
    <<"_gather_repository_context", "create_branch", "_execute_agent_workflow",
      "_create_pull_request", "_post_process_evolution">>

Handler == "_handle_evolution_failure"

Range(seq) == {seq[i] : i \in DOMAIN seq}

Done == pc = "done"

\* The requests of the run that create a pull request, and those that
\* comment on the issue of the request
IsPullPost(q) == q.method = "POST" /\ EndsWith(q.url, "/pulls")
IsCommentPost(q) ==
    /\ q.method = "POST"
    /\ EndsWith(q.url, "/issues/" \o ToString(request.issue_number) \o "/comments")
PullPosts == SelectSeq(http_log, IsPullPost)
CommentPosts == SelectSeq(http_log, IsCommentPost)

WorkflowReturnedResult == DOMAIN workflow_result # {}
WorkflowSucceeded == WorkflowReturnedResult /\ workflow_result.success
WorkflowFailed == WorkflowReturnedResult /\ ~workflow_result.success

\* The position of each statement of process_evolution_request in its text
Rank ==
    [gather_structure |-> 1, gather_key_files |-> 2, gather_commits |-> 3,
     gather_tests |-> 4, gather_docs |-> 5, create_branch |-> 6, workflow |-> 7,
     create_pr |-> 8, post_process |-> 9, handle_failure |-> 10, done |-> 11]

\* The calls so far are a prefix of the stage order, followed at most by the
\* failure handler; True is returned only after all five stages; the run is
\* at a statement of the method or has returned a boolean.
StagesInOrder ==
    /\ \E k \in 0..Len(StageOrder) :
         \/ calls = SubSeq(StageOrder, 1, k)
         \/ calls = Append(SubSeq(StageOrder, 1, k), Handler)
    /\ returned = "True" => calls = StageOrder
    /\ pc \in DOMAIN Rank
    /\ Done <=> returned \in {"True", "False"}

\* C1: the stages of a run are called in the fixed order gather context,
\* create_branch, workflow, pull request, post-processing, each after the
\* previous one has returned; a run that returns True has called all five;
\* every step moves the run forward in the method, never back, so that it
\* ends, and it ends having returned a boolean.
C1_StagesInOrder == []StagesInOrder /\ [][Rank[pc'] > Rank[pc]]_vars

C1_Witness == Done /\ returned = "True" /\ calls = StageOrder /\ Len(PullPosts) = 1

\* C2: when the workflow returns a result with success = false, the run
\* returns False at once: the pull request stage, post-processing and the
\* failure handler are not called, and neither a pull request nor a comment
\* is sent.
C2_WorkflowFailureStops ==
    WorkflowFailed =>
        /\ Done
        /\ returned = "False"
        /\ calls = SubSeq(StageOrder, 1, 3)
        /\ PullPosts = <<>>
        /\ CommentPosts = <<>>

C2_Witness == Done /\ WorkflowFailed /\ returned = "False" /\ kickoffs = 1

\* C3: when a stage raises, no later stage is called (the calls are the
\* stages up to the one that raised, then the handler), exactly one comment is
\* sent to the issue of the request, its text contains the text of the
\* exception, and the run returns False.
C3_RaiseIsHandledOnce ==
    /\ pc = "handle_failure" =>
          /\ calls \in {SubSeq(StageOrder, 1, k) : k \in 1..Len(StageOrder)}
          /\ returned = "pending"
          /\ CommentPosts = <<>>
    /\ (Done /\ Handler \in Range(calls)) =>
          /\ calls \in {Append(SubSeq(StageOrder, 1, k), Handler) : k \in 1..Len(StageOrder)}
          /\ Len(CommentPosts) = 1
          /\ Contains(CommentPosts[1].json.body, error)
          /\ Len(error) > 0
          /\ returned = "False"

C3_Witness ==
    /\ Done
    /\ calls = Append(SubSeq(StageOrder, 1, 3), Handler)
    /\ error = "Agent timeout"
    /\ Len(CommentPosts) = 1
    /\ returned = "False"

\* C9: the pull request of a run is sent only after the workflow succeeded,
\* once, with title "[AI Evolution] " and the request title, head the branch
\* of the request, base "main", and a body that contains "Resolves #" and
\* the issue number, the planning summary of the workflow and the file and
\* description of every file change it reports.
C9_PullRequestContent ==
    /\ Len(PullPosts) <= 1
    /\ DOMAIN pr_result # {} => Len(PullPosts) = 1
    /\ \A i \in DOMAIN PullPosts :
         /\ WorkflowSucceeded
         /\ PullPosts[i].json.title = "[AI Evolution] " \o request.title
         /\ PullPosts[i].json.head = request.branch_name
         /\ PullPosts[i].json.base = "main"
         /\ Contains(PullPosts[i].json.body,
                     "Resolves #" \o ToString(request.issue_number) \o "\n")
         /\ Contains(PullPosts[i].json.body, workflow_result.planning_summary)
         /\ \A j \in DOMAIN workflow_result.file_changes :
              /\ Contains(PullPosts[i].json.body, workflow_result.file_changes[j].file)
              /\ Contains(PullPosts[i].json.body,
                          workflow_result.file_changes[j].description)

C9_Witness ==
    /\ Done
    /\ returned = "True"
    /\ request.issue_number = 123
    /\ Len(PullPosts) = 1
    /\ PullPosts[1].json.title = "[AI Evolution] Add auth"
    /\ Contains(PullPosts[1].json.body, "Resolves #123")
    /\ Len(workflow_result.file_changes) = 3

-----------------------------------------------------------------------------
(* The operations of the remote repository client, each called on its own    *)
(* with every response of the remote                                         *)

InitClient ==
    /\ app_features = InitialFeatures
    /\ evolution_log = <<>>
    /\ git_remote \in GitRemotes
    /\ config = TestConfig
    /\ agents = {}
    /\ request \in Requests
    /\ pc = "idle"
    /\ calls = <<>>
    /\ http_log = <<>>
    /\ logs = <<>>
    /\ kickoffs = 0
    /\ repo_context = <<>>
    /\ workflow_result = <<>>
    /\ pr_result = <<>>
    /\ error = ""
    /\ returned = "pending"
    /\ op = ""
    /\ responses = <<>>
    /\ result = <<>>
    /\ env = <<>>
    /\ args = <<>>
    /\ report = ""
    /\ exit_code = -1

\* A caller awaits one operation: what it sent, what it logged, how it ended
Called(name, rs, call) ==
    /\ pc' = "returned"
    /\ op' = name
    /\ responses' = rs
    /\ result' = [raised |-> call.raised, exc |-> call.exc, value |-> call.value]
    /\ http_log' = call.sent
    /\ logs' = call.logged
    /\ UNCHANGED <<demo_vars, git_remote, config, agents, request, calls, kickoffs, repo_context,
                   workflow_result, pr_result, error, returned, main_vars>>

\* The pull request of tests/test_agents.py:334-339, on the branch of the request
TestPrData ==
    [title |-> "Test PR", body |-> "Test PR body", head |-> request.branch_name,
     base |-> "main"]

CallGetRepositoryStructure ==
    /\ pc = "idle"
    /\ \E r \in TreeResponses :
           Called("get_repository_structure", <<r>>, get_repository_structure(git_remote, r))

CallGetKeyFiles ==
    /\ pc = "idle"
    /\ \E rs \in KeyFileSequences :
           Called("get_key_files", rs, get_key_files(git_remote, rs))

CallGetRecentCommits ==
    /\ pc = "idle"
    /\ \E r \in CommitResponses :
           Called("get_recent_commits", <<r>>,
                  get_recent_commits(git_remote, RecentCommitCount, r))

CallGetTestFiles ==
    /\ pc = "idle"
    /\ \E r \in TreeResponses :
           Called("get_test_files", <<r>>, get_test_files(git_remote, r))

CallGetDocumentationFiles ==
    /\ pc = "idle"
    /\ \E r \in TreeResponses :
           Called("get_documentation_files", <<r>>, get_documentation_files(git_remote, r))

CallCreateBranch ==
    /\ pc = "idle"
    /\ \E r_get \in RefResponses, r_post \in CreateRefResponses :
           Called("create_branch", <<r_get, r_post>>,
                  create_branch(git_remote, request.branch_name, "main", r_get, r_post))

CallCreatePullRequest ==
    /\ pc = "idle"
    /\ \E r \in PullResponses :
           Called("create_pull_request", <<r>>,
                  create_pull_request(git_remote, TestPrData, r))

CallCommentOnIssue ==
    /\ pc = "idle"
    /\ \E r \in CommentResponses :
           Called("comment_on_issue", <<r>>,
                  comment_on_issue(git_remote, request.issue_number, "Test comment", r))

CallUpdateFile ==
    /\ pc = "idle"
    /\ \E r_get \in ContentResponses, r_put \in PutResponses :
           Called("update_file", <<r_get, r_put>>,
                  update_file(git_remote, "src/main.py", "print('hi')", "Update main",
                              request.branch_name, r_get, r_put))

NextClient ==
    \/ CallGetRepositoryStructure
    \/ CallGetKeyFiles
    \/ CallGetRecentCommits
    \/ CallGetTestFiles
    \/ CallGetDocumentationFiles
    \/ CallCreateBranch
    \/ CallCreatePullRequest
    \/ CallCommentOnIssue
    \/ CallUpdateFile

SpecClient == InitClient /\ [][NextClient]_vars

(* Properties of the client's operations *)

Returns == pc = "returned"

\* A transport exception, or a status other than the ones the operation accepts
Refused(r, accepted) == r.failed \/ r.status \notin accepted

Posted == \E i \in DOMAIN http_log : http_log[i].method = "POST"

\* The HTTP outcome of the operation called is a failure
OperationFailed ==
    CASE op \in {"get_repository_structure", "get_recent_commits", "get_test_files",
                 "get_documentation_files"} -> Refused(responses[1], {200})
      [] op = "get_key_files" -> \A i \in DOMAIN responses : Refused(responses[i], {200})
      [] op = "create_branch" ->
            Refused(responses[1], {200}) \/ Refused(responses[2], {201})
      [] op \in {"create_pull_request", "comment_on_issue"} -> Refused(responses[1], {201})
      [] op = "update_file" -> responses[1].failed \/ Refused(responses[2], {200, 201})

\* The operation called returned its failure value: False, an empty list or
\* dictionary, an empty tree with a diagnostic summary, or success=false with
\* an error
ReturnedFailureValue ==
    CASE op = "get_repository_structure" ->
            /\ result.value.tree = <<>>
            /\ \/ result.value.structure_summary = "Could not retrieve structure"
               \/ Prefix(result.value.structure_summary, 7) = "Error: "
      [] op \in {"get_recent_commits", "get_test_files", "get_documentation_files"} ->
            result.value = <<>>
      [] op = "get_key_files" -> result.value = {}
      [] op \in {"create_branch", "comment_on_issue", "update_file"} ->
            result.value = FALSE
      [] op = "create_pull_request" ->
            /\ ~result.value.success
            /\ "error" \in DOMAIN result.value
            /\ "pr_number" \notin DOMAIN result.value

\* C6: no operation of the client lets an exception out, whatever the remote
\* answers (any status, a malformed body, a transport exception); when the
\* HTTP outcome is a failure the operation returns its failure value, and
\* get_key_files leaves out every file whose request failed.
C6_ClientNeverRaises ==
    Returns =>
        /\ ~result.raised
        /\ OperationFailed => ReturnedFailureValue
        /\ op = "get_key_files" =>
              \A i \in DOMAIN responses :
                  Refused(responses[i], {200}) =>
                      \A pair \in result.value : pair[1] # key_files[i]

C6_Witness ==
    /\ Returns
    /\ op = "update_file"
    /\ ~responses[1].failed
    /\ responses[2].failed
    /\ Len(http_log) = 2
    /\ result.value = FALSE
    /\ ~result.raised

\* C7: create_branch returns True exactly when the base-branch lookup
\* answered 200 and the create-ref POST that followed answered 201; when the
\* lookup answers another status it returns False, raises nothing and sends
\* no POST.
C7_CreateBranchResult ==
    (Returns /\ op = "create_branch") =>
        /\ ~result.raised
        /\ result.value \in BOOLEAN
        /\ result.value <=> /\ ~responses[1].failed
                            /\ responses[1].status = 200
                            /\ Posted
                            /\ ~responses[2].failed
                            /\ responses[2].status = 201
        /\ (~responses[1].failed /\ responses[1].status # 200) =>
              /\ result.value = FALSE
              /\ ~Posted
              /\ Len(http_log) = 1

C7_Witness ==
    /\ Returns
    /\ op = "create_branch"
    /\ result.value = TRUE
    /\ Len(http_log) = 2
    /\ http_log[2].json.sha = "abc123"
    /\ http_log[2].json.ref = "refs/heads/" \o request.branch_name

\* C8: create_pull_request sends exactly one POST; when the answer is 201
\* (with a body that parses and holds the number and the address of the pull
\* request) it returns success=true with pr_number and pr_url taken from the
\* answer; for any other status or a transport exception it returns
\* success=false with an error and no pr_number.
C8_PullRequestResult ==
    (Returns /\ op = "create_pull_request") =>
        /\ Len(http_log) = 1
        /\ http_log[1].method = "POST"
        /\ ( /\ ~responses[1].failed
             /\ responses[1].status = 201
             /\ responses[1].valid
             /\ {"number", "html_url"} \subseteq responses[1].data.keys ) =>
              /\ result.value.success
              /\ result.value.pr_number = responses[1].data.number
              /\ result.value.pr_url = responses[1].data.html_url
        /\ Refused(responses[1], {201}) =>
              /\ ~result.value.success
              /\ "error" \in DOMAIN result.value
              /\ "pr_number" \notin DOMAIN result.value

-----------------------------------------------------------------------------
(* The operations of the crew manager, each called on its own with every     *)
(* roster, configuration and behaviour of the third-party crew               *)

\* What a crew run can do: fail in Crew(...), fail in kickoff, return a result
\* or task outputs whose str() raises, leave a task without output
CrewRuns ==
    {RunOk,
     RunKickoffFails,
     [RunOk EXCEPT !.crew_error = "Crew validation error"],
     [RunOk EXCEPT !.result = [text |-> "result", str_raises |-> TRUE]],
     [RunOk EXCEPT !.outputs[1] = [text |-> "plan", str_raises |-> TRUE]],
     [RunOk EXCEPT !.outputs[3] = Output("")],
     [RunOk EXCEPT !.outputs[2] = Output(Repeat("c", SummaryLimit + 1))]}

\* Configurations whose planner template is well formed, names a variable the
\* context lacks, or is not a valid format string
CrewConfigs ==
    {TestConfig,
     [TestConfig EXCEPT !["planner"].prompt_template =
          <<Lit("Plan "), Field("issue_title"), Lit(" "), Field("deadline")>>],
     [TestConfig EXCEPT !["planner"].prompt_template = <<Lit("Plan "), Auto("")>>],
     [TestConfig EXCEPT !["planner"].prompt_template =
          <<Lit("Plan "), Attr("issue_title")>>],
     [TestConfig EXCEPT !["coder"].prompt_template = <<Lit("Code "), Brace("}")>>]}

\* The repository context of a run in which every request of the client failed
EmptyRepoContext ==
    [structure |-> [tree |-> <<>>, structure_summary |-> "Could not retrieve structure"],
     key_files |-> {},
     recent_changes |-> <<>>,
     existing_tests |-> <<>>,
     documentation |-> <<>>]

InitCrew ==
    /\ app_features = InitialFeatures
    /\ evolution_log = <<>>
    /\ git_remote \in {g \in GitRemotes : g.ran /\ g.url # ""}
    /\ config \in CrewConfigs
    /\ agents \in Rosters
    /\ request \in Requests
    /\ pc = "idle"
    /\ calls = <<>>
    /\ http_log = <<>>
    /\ logs = <<>>
    /\ kickoffs = 0
    /\ repo_context = EmptyRepoContext
    /\ workflow_result = <<>>
    /\ pr_result = <<>>
    /\ error = ""
    /\ returned = "pending"
    /\ op = ""
    /\ responses = <<>>
    /\ result = <<>>
    /\ env = <<>>
    /\ args = <<>>
    /\ report = ""
    /\ exit_code = -1

\* A caller awaits one operation of the crew manager
CrewCalled(name, run, call) ==
    /\ pc' = "returned"
    /\ op' = name
    /\ responses' = <<run>>
    /\ result' = [raised |-> call.raised, exc |-> call.exc, value |-> call.value]
    /\ kickoffs' = call.kickoffs
    /\ logs' = call.logged
    /\ UNCHANGED <<demo_vars, git_remote, config, agents, request, calls, http_log, repo_context,
                   workflow_result, pr_result, error, returned, main_vars>>

CallExecuteEvolutionWorkflow ==
    /\ pc = "idle"
    /\ \E run \in CrewRuns :
           CrewCalled("execute_evolution_workflow", run,
                      execute_evolution_workflow(
                          agents, config, workflow_input(request, repo_context), run))

CallTriggerEvolutionAnalysis ==
    /\ pc = "idle"
    /\ \E run \in CrewRuns :
           CrewCalled("trigger_evolution_analysis", run,
                      trigger_evolution_analysis(
                          agents, config,
                          evolution_data(request, workflow_failure(""),
                                         [success |-> FALSE, error |-> "HTTP 500: "]),
                          run))

\* _create_tasks called on its own; no crew is involved
NoRun == [none |-> TRUE]

CallCreateTasks ==
    /\ pc = "idle"
    /\ CrewCalled("_create_tasks", NoRun,
                  Ran(_create_tasks(agents, config, workflow_input(request, repo_context)),
                      0))

NextCrew ==
    \/ CallExecuteEvolutionWorkflow
    \/ CallTriggerEvolutionAnalysis
    \/ CallCreateTasks

SpecCrew == InitCrew /\ [][NextCrew]_vars

(* Properties of the crew manager's operations *)

\* A format string that str.format rejects before or without a missing name
RaisingTemplate(t) ==
    \E i \in DOMAIN t :
        /\ \/ t[i].kind \in {"auto", "brace"}
           \/ t[i].kind = "attr" /\ t[i].text \in {"issue_title", "issue_body"}
        /\ \A j \in 1..(i - 1) : t[j].kind \in {"lit", "escaped"}

\* Something raises inside the try block of execute_evolution_workflow: a
\* step whose template is rejected or whose role is not in the roster, the
\* construction of the crew, its run, or str() of its result
SequencingRaises ==
    \/ \E i \in DOMAIN pipeline :
          \/ pipeline[i] \notin agents
          \/ RaisingTemplate(prompt_template(config, pipeline[i]))
    \/ responses[1].crew_error # ""
    \/ responses[1].kickoff_error # ""
    \/ responses[1].result.str_raises

\* C10: execute_evolution_workflow never raises; when a step cannot be built,
\* the crew cannot be constructed or run, or its result cannot be processed,
\* it returns success=false with the text of the exception, no file changes
\* and the five fixed failure messages.
C10_WorkflowNeverRaises ==
    (Returns /\ op = "execute_evolution_workflow") =>
        /\ ~result.raised
        /\ "success" \in DOMAIN result.value
        /\ SequencingRaises =>
              /\ result.value.success = FALSE
              /\ Len(result.value.error) > 0
              /\ result.value.file_changes = <<>>
              /\ result.value.planning_summary = "Workflow failed during execution"
              /\ result.value.implementation_summary = "No implementation completed"
              /\ result.value.testing_summary = "No tests created"
              /\ result.value.documentation_summary = "No documentation updated"
              /\ result.value.deployment_notes = "Deployment not configured"

C10_Witness ==
    /\ Returns
    /\ op = "execute_evolution_workflow"
    /\ agents = all_roles
    /\ responses[1].kickoff_error = "Rate limit exceeded"
    /\ kickoffs = 1
    /\ result.value.success = FALSE
    /\ result.value.error = "Rate limit exceeded"
    /\ result.value.file_changes = <<>>

-----------------------------------------------------------------------------
(* The command line entry point of the orchestrator: main() of               *)
(* orchestrator.py, with the constructors it calls and the run it awaits     *)

\* The process environment of a run of main(): whether the command line has
\* every required argument, whether seed_instructions.yaml can be read, the
\* access token, and what becomes of ChatOpenAI(...)/ChatAnthropic(...)
LlmStates == {"available", "no_key", "unsupported_provider"}
Environments ==
    [argv_ok : BOOLEAN, config_ok : BOOLEAN, token : {"", "ghp_test"}, llm : LlmStates]

ExitUsage == 2

InitCli ==
    /\ app_features = InitialFeatures
    /\ evolution_log = <<>>
    /\ git_remote \in {g \in GitRemotes : g.ran /\ g.url # ""}
    /\ config = <<>>
    /\ agents = {}
    /\ request \in Requests
    /\ pc = "parse_args"
    /\ calls = <<>>
    /\ http_log = <<>>
    /\ logs = <<>>
    /\ kickoffs = 0
    /\ repo_context = <<>>
    /\ workflow_result = <<>>
    /\ pr_result = <<>>
    /\ error = ""
    /\ returned = "pending"
    /\ op = "main"
    /\ responses = <<>>
    /\ result = <<>>
    /\ env \in Environments
    /\ args = <<>>
    /\ report = ""
    /\ exit_code = -1

\* An exception that no except clause of main() catches ends the interpreter
\* with its traceback on stderr and exit status 1; no log record is written
Uncaught(e) ==
    /\ error' = e
    /\ exit_code' = 1
    /\ pc' = "exited"

\* _initialize_llm (crew_manager.py:40-64): None when the model cannot be built
_initialize_llm(llm) ==
    CASE llm = "available" ->
            [llm |-> "llm", logged |-> <<>>]
      [] llm = "no_key" ->
            [llm |-> "None",
             logged |-> <<LogRec("WARNING",
                 "LLM initialization failed; falling back to no-LLM mode: "
                     \o "The api_key client option must be set")>>]
      [] llm = "unsupported_provider" ->
            [llm |-> "None",
             logged |-> <<LogRec("WARNING",
                 "LLM initialization failed; falling back to no-LLM mode: "
                     \o "Unsupported LLM provider: local")>>]

\* _create_agents (crew_manager.py:66-79): no agents without a model; with a
\* model the list of common tools names FileWriteTool, which the module never
\* imports (crew_manager.py:12 imports FileWriterTool)
_create_agents(llm) ==
    IF llm = "None"
    THEN Returned({}, <<>>, <<>>)
    ELSE Raised("name 'FileWriteTool' is not defined", <<>>, <<>>)

\* CrewManager.__init__ (crew_manager.py:27-38)
CrewManager(llm_state) ==
    [_create_agents(_initialize_llm(llm_state).llm)
        EXCEPT !.logged = _initialize_llm(llm_state).logged \o @]

\* GitHubIntegration.__init__ (github_integration.py:25-39)
GitHubIntegration(token) ==
    IF token = ""
    THEN Raised("GITHUB_TOKEN environment variable is required", <<>>, <<>>)
    ELSE Returned([token |-> token,
                   headers |-> [Authorization |-> "Bearer " \o token]], <<>>, <<>>)

\* What the statements of main() before and after the run leave alone
cycle_vars == <<calls, http_log, kickoffs, repo_context, workflow_result, pr_result,
                returned>>

\* orchestrator.py:244-260: argparse ends the process with status 2 when a
\* required argument is missing
ParseArgs ==
    /\ pc = "parse_args"
    /\ IF env.argv_ok
       THEN /\ args' = request
            /\ pc' = "load_config"
            /\ exit_code' = exit_code
       ELSE /\ args' = args
            /\ pc' = "exited"
            /\ exit_code' = ExitUsage
    /\ UNCHANGED <<demo_vars, git_remote, config, agents, request, logs, error, cycle_vars,
                   op_vars, env, report>>

\* AgentOrchestrator.__init__, first half (orchestrator.py:49-50) and
\* _load_config (orchestrator.py:54-62): the failure is logged and raised again
LoadConfig ==
    /\ pc = "load_config"
    /\ IF env.config_ok
       THEN /\ config' = TestConfig
            /\ pc' = "construct_github"
            /\ UNCHANGED <<logs, error, exit_code>>
       ELSE /\ config' = config
            /\ logs' = Append(logs,
                   LogRec("ERROR", "Failed to load config from seed_instructions.yaml: "
                                       \o "No such file or directory"))
            /\ Uncaught("No such file or directory")
    /\ UNCHANGED <<demo_vars, git_remote, agents, request, cycle_vars, op_vars, env, args, report>>

\* orchestrator.py:51: self.github = GitHubIntegration(self.config)
ConstructGitHub ==
    /\ pc = "construct_github"
    /\ IF GitHubIntegration(env.token).raised
       THEN Uncaught(GitHubIntegration(env.token).exc)
       ELSE /\ pc' = "construct_crew"
            /\ UNCHANGED <<error, exit_code>>
    /\ UNCHANGED <<demo_vars, git_remote, config, agents, request, logs, cycle_vars, op_vars, env,
                   args, report>>

\* orchestrator.py:52: self.crew_manager = CrewManager(self.config); then
\* main() starts the run (orchestrator.py:266-270)
ConstructCrewManager ==
    /\ pc = "construct_crew"
    /\ logs' = logs \o CrewManager(env.llm).logged
    /\ IF CrewManager(env.llm).raised
       THEN /\ Uncaught(CrewManager(env.llm).exc)
            /\ agents' = agents
       ELSE /\ agents' = CrewManager(env.llm).value
            /\ pc' = "gather_structure"
            /\ UNCHANGED <<error, exit_code>>
    /\ UNCHANGED <<demo_vars, git_remote, config, request, cycle_vars, op_vars, env, args, report>>

\* orchestrator.py:269-276: the exit status of a run that returned or raised
Exit ==
    /\ pc = "done"
    /\ pc' = "exited"
    /\ IF returned = "raised"
       THEN /\ logs' = Append(logs, LogRec("ERROR", "Orchestrator failed: " \o error))
            /\ exit_code' = 1
       ELSE /\ logs' = logs
            /\ exit_code' = IF returned = "True" THEN 0 ELSE 1
    /\ UNCHANGED <<demo_vars, git_remote, config, agents, request, error, cycle_vars, op_vars, env,
                   args, report>>

\* The run that main() awaits has the agents CrewManager built: none, so that
\* the pull request and post-processing stages are never reached from main()
NextCli ==
    \/ ParseArgs
    \/ LoadConfig
    \/ ConstructGitHub
    \/ ConstructCrewManager
    \/ GatherStructure
    \/ GatherKeyFiles
    \/ GatherCommits
    \/ GatherTests
    \/ GatherDocs
    \/ CreateBranch
    \/ ExecuteWorkflow
    \/ StageRaises
    \/ HandleFailure
    \/ Exit

SpecCli == InitCli /\ [][NextCli]_vars

(* Properties of main() *)

Exited == pc = "exited"

\* An exception was raised while constructing the orchestrator or in the run
ExceptionRaised == error # ""

Logged(text) ==
    \E i \in DOMAIN logs : logs[i].level = "ERROR" /\ Contains(logs[i].msg, text)

\* C4: once the arguments are parsed, main() exits with 0 exactly when the
\* run returned True and with 1 otherwise, and every exception raised while
\* constructing the orchestrator or in the run is in an error record of the
\* log when the process exits.
C4_ExitCodeAndLog ==
    (Exited /\ args # <<>>) =>
        /\ exit_code = 0 <=> returned = "True"
        /\ exit_code \in {0, 1}
        /\ ExceptionRaised => Logged(error)

-----------------------------------------------------------------------------
(* scripts/triage_failure.py and run_triage_report of the crew manager *)

Max(a, b) == IF a > b THEN a ELSE b

\* Python text.splitlines() for texts whose only line boundary is "\n": the
\* pieces between the newlines, without an empty piece after a final newline
splitlines(text) ==
    IF Split(text, "\n")[Len(Split(text, "\n"))] = ""
    THEN SubSeq(Split(text, "\n"), 1, Len(Split(text, "\n")) - 1)
    ELSE Split(text, "\n")

\* Variant: a count of zero keeps no line
tail_lines_none_for_zero(lines, n) ==
    Join("\n", IF n >= 0 THEN SubSeq(lines, Max(1, Len(lines) - n + 1), Len(lines))
               ELSE SubSeq(lines, 1 - n, Len(lines)))

\* A log file is the lines text.splitlines() yields. tail_lines
\* (triage_failure.py:35-37) keeps lines[-n:]: the last n lines for n > 0,
\* every line for n = 0, the lines after the first -n for n < 0.
tail_lines(lines, n) ==
    Join("\n", IF n > 0 THEN SubSeq(lines, Max(1, Len(lines) - n + 1), Len(lines))
               ELSE SubSeq(lines, 1 - n, Len(lines)))

\* Variant: every file counts as read
Readable_any(file) == TRUE

\* read_text succeeded (triage_failure.py:54-57)
Readable(file) == file.readable

\* collect_logs_excerpt (triage_failure.py:40-64) on a directory given as
\* [exists, files, others]: files are its *.txt and *.log files in sorted
\* order, others the names of its remaining files
collect_logs_excerpt(root, tail) ==
    IF ~root.exists
    THEN [jobs_summary |-> "Logs root not found.", excerpt |-> "No logs available."]
    ELSE IF root.files = <<>>
    THEN [jobs_summary |-> "No log files found.", excerpt |-> "No logs available."]
    ELSE [jobs_summary |->
              Join("\n", [i \in DOMAIN SelectSeq(root.files, Readable) |->
                             "- " \o SelectSeq(root.files, Readable)[i].rel]),
          excerpt |->
              Join("\n", [i \in DOMAIN SelectSeq(root.files, Readable) |->
                             "===== " \o SelectSeq(root.files, Readable)[i].rel
                                 \o " =====\n"
                                 \o tail_lines(SelectSeq(root.files, Readable)[i].lines, tail)
                                 \o "\n"])]

MaxFiles == 25
MaxListed == 50

\* One <details> block of build_logs_details_markdown (triage_failure.py:104-110);
\* a backtick is written ^
details_block(file, tail) ==
    "<details><summary>" \o file.rel \o "</summary>\n\n"
        \o "^^^text\n" \o Replace(tail_lines(file.lines, tail), "^^^", "^^\\^")
        \o "\n^^^\n\n" \o "</details>\n"

details_blocks(shown, total, tail) ==
    Join("\n",
         [i \in DOMAIN shown |-> details_block(shown[i], tail)]
            \o IF Len(shown) < total
               THEN <<"\n<sub>Showing " \o ToString(Len(shown)) \o " of "
                         \o ToString(total) \o " files (last " \o ToString(tail)
                         \o " lines each).</sub>">>
               ELSE <<>>)

\* build_logs_details_markdown (triage_failure.py:67-116)
build_logs_details_markdown(root, tail) ==
    IF ~root.exists THEN "No logs directory found."
    ELSE IF root.files = <<>>
    THEN IF root.others = <<>> THEN "No log files available."
         ELSE "No *.txt/*.log files found. Directory listing sample:\n"
                 \o Join("\n", [i \in 1..Min(Len(root.others), MaxListed) |->
                                   "- " \o root.others[i]])
                 \o IF Len(root.others) <= MaxListed THEN ""
                    ELSE "\n... and " \o ToString(Len(root.others) - MaxListed)
                             \o " more files"
    ELSE details_blocks(
             SubSeq(SelectSeq(root.files, Readable), 1,
                    Min(Len(SelectSeq(root.files, Readable)), MaxFiles)),
             Len(root.files), tail)

\* simple_summary (triage_failure.py:119-132)
simple_summary(workflow_name, jobs_summary, excerpt, tail) ==
    "### Auto-Triage Summary (fallback)\n\n"
        \o "Workflow '" \o workflow_name \o "' failed.\n\n"
        \o "Jobs/Logs files:\n" \o jobs_summary \o "\n\n"
        \o "Likely area: "
        \o (IF Contains(excerpt, "pip install") \/ Contains(excerpt, "Collecting")
            THEN "Potential network or dependency issue" ELSE "Check failing step")
        \o ".\n\n"
        \o "Actions:\n"
        \o "1. Inspect the first failing step in the run.\n"
        \o "2. Re-run failed jobs with increased verbosity.\n"
        \o "3. If dependency-related, try pinning the minimal conflicting version.\n"
        \o "\n(Logs excerpt below shows last " \o ToString(tail) \o " lines per file.)"

RawExcerptLimit == 5000

\* crew_manager.py:382-391: one task for the triager, one crew, one kickoff
triage_run(run, description) ==
    IF description.raised THEN Ran(description, 0)
    ELSE IF run.crew_error # "" THEN Ran(Raised(run.crew_error, <<>>, description.logged), 0)
    ELSE IF run.kickoff_error # ""
    THEN Ran(Raised(run.kickoff_error, <<>>, description.logged), 1)
    ELSE IF run.result.str_raises
    THEN Ran(Raised("__str__ returned non-string", <<>>, description.logged), 1)
    ELSE Ran(Returned(IF run.result.text # "" THEN run.result.text
                      ELSE "Failed to generate triage report. See logs excerpt above.",
                      <<>>, description.logged),
             1)

\* Variant: without a triager the whole excerpt is returned
run_triage_report_untruncated(llm, roster, cfg, triage_input, run) ==
    IF llm = "None" \/ "triager" \notin roster
    THEN Ran(Returned(Get(triage_input, "logs_excerpt", ""),
                      <<>>,
                      <<LogRec("WARNING",
                               "Triager unavailable (no LLM or agent not configured); "
                                   \o "returning raw logs excerpt")>>),
             0)
    ELSE triage_run(run, _format_prompt(prompt_template(cfg, "triager"), triage_input))

\* run_triage_report (crew_manager.py:370-391); llm is "None" or the model
run_triage_report(llm, roster, cfg, triage_input, run) ==
    IF llm = "None" \/ "triager" \notin roster
    THEN Ran(Returned(Prefix(Get(triage_input, "logs_excerpt", ""), RawExcerptLimit),
                      <<>>,
                      <<LogRec("WARNING",
                               "Triager unavailable (no LLM or agent not configured); "
                                   \o "returning raw logs excerpt")>>),
             0)
    ELSE triage_run(run, _format_prompt(prompt_template(cfg, "triager"), triage_input))

\* create_issue of the client, called at triage_failure.py:203: the issue is
\* created unless an open issue carries the deduplication label, and then
\* that issue is updated; a refused or failed request becomes a failure value
NoLabel == "None"

create_issue_write(search, write, r) ==
    IF r.failed THEN Raised(r.text, search.sent \o <<write>>, search.logged)
    ELSE IF r.status \in {200, 201}
    THEN IF ~r.valid THEN Raised(BadBody, search.sent \o <<write>>, search.logged)
         ELSE Returned([success |-> TRUE, issue_number |-> r.data.number],
                       search.sent \o <<write>>, search.logged)
    ELSE Returned([success |-> FALSE,
                   error |-> "HTTP " \o ToString(r.status) \o ": " \o r.text],
                  search.sent \o <<write>>,
                  Append(search.logged,
                         LogRec("ERROR", "Failed to create issue: " \o ToString(r.status))))

create_issue_try(remote, title, body, labels, dedupe_label, r_search, r_write) ==
    LET get == Request("GET", RepoUrl(remote) \o "/issues?state=open&labels="
                                   \o dedupe_label, NoJson)
        post == Request("POST", RepoUrl(remote) \o "/issues",
                        [title |-> title, body |-> body, labels |-> labels])
    IN IF dedupe_label = NoLabel
       THEN create_issue_write(Returned(NoValue, <<>>, <<>>), post, r_write)
       ELSE IF r_search.failed THEN Raised(r_search.text, <<get>>, <<>>)
       ELSE IF r_search.status = 200 /\ ~r_search.valid THEN Raised(BadBody, <<get>>, <<>>)
       ELSE IF r_search.status = 200 /\ r_search.data.open # <<>>
       THEN create_issue_write(
                Returned(NoValue, <<get>>, <<>>),
                Request("PATCH", RepoUrl(remote) \o "/issues/"
                                     \o ToString(r_search.data.open[1]),
                        [body |-> body]),
                r_write)
       ELSE create_issue_write(Returned(NoValue, <<get>>, <<>>), post, r_write)

create_issue(remote, title, body, labels, dedupe_label, r_search, r_write) ==
    WithRepoInfo(remote,
        Catch(create_issue_try(remote, title, body, labels, dedupe_label,
                               r_search, r_write),
              [success |-> FALSE, error |-> "request failed"],
              "ERROR", "Error creating issue: "))

IssueSearchResponses ==
    {Http(200, TRUE, [open |-> <<>>], "[]"),
     Http(200, TRUE, [open |-> <<41>>], "[...]"),
     Http(500, FALSE, [open |-> <<>>], "Server Error")}

IssueWriteResponses ==
    {Http(201, TRUE, [number |-> 42], "created"),
     Http(500, FALSE, [number |-> 0], "Server Error"),
     Transport([number |-> 0])}

\* The environment of a triage run: the command line, seed_instructions.yaml
\* (missing, empty, without or with workflow.failure_reporting), the access
\* token, the completion credentials, and the directory of unzipped logs
TriageArgsWith(given, lines) ==
    [workflow_name |-> "CI", run_url |-> "https://github.com/o/r/actions/runs/1",
     git_ref |-> "main", commit_sha |-> "0123456789abcdef", tail_given |-> given,
     tail_lines |-> lines]

TriageArgs ==
    {TriageArgsWith(FALSE, 0), TriageArgsWith(TRUE, 0), TriageArgsWith(TRUE, 2)}

ConfigFiles == {"missing", "empty", "plain", "failure_reporting", "no_labels"}

\* workflow.failure_reporting of each configuration file
failure_reporting(file) ==
    CASE file = "failure_reporting" ->
            [logs_tail_lines |-> 1, issue_labels |-> <<"bug", "ci">>]
      [] file = "no_labels" -> [issue_labels |-> <<>>]
      [] OTHER -> <<>>

Credentials == {"none", "available", "unsupported_provider"}

LogFile(rel, lines, readable) == [rel |-> rel, lines |-> lines, readable |-> readable]

LogRoots ==
    {[exists |-> FALSE, files |-> <<>>, others |-> <<>>],
     [exists |-> TRUE, files |-> <<>>, others |-> <<"logs.zip">>],
     [exists |-> TRUE, others |-> <<>>,
      files |-> <<LogFile("build/1_setup.txt",
                          <<"Collecting flask", "ERROR: pip install failed", "^^^", "exit 1">>,
                          TRUE),
                  LogFile("build/2_test.log", <<"secret">>, FALSE),
                  LogFile("test.log", <<"1 failed", "exit 1">>, TRUE)>>]}

TriageEnvironments ==
    [argv_ok : BOOLEAN, args : TriageArgs, config : ConfigFiles, token : {"", "ghp_test"},
     credentials : Credentials, logs_root : LogRoots]

DefaultTail == 200
ExcerptLimit == 60000
ShortCommitLen == 7

\* triage_failure.py:140-141: the tail line count of the run
tail_of(a, failure_cfg) ==
    IF a.tail_given /\ a.tail_lines # 0 THEN a.tail_lines
    ELSE Get(failure_cfg, "logs_tail_lines", DefaultTail)

\* triage_failure.py:157-166
triage_input(a, collected, context, tail) ==
    [workflow_name |-> a.workflow_name,
     run_url |-> a.run_url,
     git_ref |-> a.git_ref,
     commit_sha |-> a.commit_sha,
     failing_jobs_summary |-> collected.jobs_summary,
     logs_excerpt |-> Prefix(collected.excerpt, ExcerptLimit),
     repository_context |-> context,
     tail_lines |-> tail]

\* triage_failure.py:171-176: the crew manager is built in triage mode, then
\* asked for the report
triager_try(crew, llm, cfg, input, run) ==
    IF crew.raised THEN Ran(crew, 0)
    ELSE [run_triage_report(llm, crew.value, cfg, input, run)
             EXCEPT !.logged = crew.logged \o @]

\* Variant: no except clause around the triager
triager_except_nothing(body, fallback) == body

\* triage_failure.py:177-179: any exception of the triager gives the fallback
triager_except(body, fallback) ==
    IF body.raised
    THEN Ran(Returned(fallback, <<>>,
                      Append(body.logged,
                             LogRec("WARNING",
                                    "Triager unavailable, falling back to simple summary: "
                                        \o body.exc))),
             body.kickoffs)
    ELSE body

\* triage_failure.py:169-181
report_md(credentials, cfg, input, fallback, run) ==
    IF credentials # "none"
    THEN triager_except(
             triager_try(CrewManager(credentials), _initialize_llm(credentials).llm,
                         cfg, input, run),
             fallback)
    ELSE Ran(Returned(fallback, <<>>, <<>>), 0)

\* triage_failure.py:185-197
issue_title(a) ==
    "[CI Failure] " \o a.workflow_name \o " on " \o a.git_ref \o " @ "
        \o Prefix(a.commit_sha, ShortCommitLen)

issue_body(a, report_text, jobs_summary, logs_details_md, tail) ==
    "## CI Failure: " \o a.workflow_name \o "\n\n"
        \o "- Run: " \o a.run_url \o "\n"
        \o "- Ref: ^" \o a.git_ref \o "^\n"
        \o "- Commit: ^" \o a.commit_sha \o "^\n\n"
        \o report_text \o "\n"
        \o (IF jobs_summary # "" THEN "\n**Files scanned:**\n\n" \o jobs_summary \o "\n\n"
            ELSE "")
        \o "<details><summary>Logs Excerpts (last " \o ToString(tail)
        \o " lines per file)</summary>\n\n"
        \o logs_details_md \o "\n\n"
        \o "</details>\n"

\* triage_failure.py:199-200
issue_labels(failure_cfg) == Get(failure_cfg, "issue_labels", <<"ci-failure", "triage">>)
\* Variant: the last label is the deduplication label
dedupe_label_last(labels) == IF labels # <<>> THEN labels[Len(labels)] ELSE NoLabel

\* triage_failure.py:200
dedupe_label(labels) == IF labels # <<>> THEN labels[1] ELSE NoLabel

InitTriage ==
    /\ app_features = InitialFeatures
    /\ evolution_log = <<>>
    /\ git_remote \in {g \in GitRemotes : g.ran /\ g.url # ""}
    /\ config = <<>>
    /\ agents = {}
    /\ request \in {r \in Requests : r.issue_number = 123}
    /\ pc = "parse_args"
    /\ calls = <<>>
    /\ http_log = <<>>
    /\ logs = <<>>
    /\ kickoffs = 0
    /\ repo_context = <<>>
    /\ workflow_result = <<>>
    /\ pr_result = <<>>
    /\ error = ""
    /\ returned = "pending"
    /\ op = "triage_main"
    /\ responses = <<>>
    /\ result = <<>>
    /\ env \in TriageEnvironments
    /\ args = <<>>
    /\ report = ""
    /\ exit_code = -1

\* What no statement of the triage entry point writes
triage_fixed == <<demo_vars, git_remote, agents, request, calls, workflow_result, pr_result,
                  returned, op, responses, env>>

\* parse_args (triage_failure.py:210-218)
TriageParseArgs ==
    /\ pc = "parse_args"
    /\ IF env.argv_ok
       THEN /\ args' = env.args
            /\ pc' = "load_config"
            /\ exit_code' = exit_code
       ELSE /\ args' = args
            /\ pc' = "exited"
            /\ exit_code' = ExitUsage
    /\ UNCHANGED <<triage_fixed, config, http_log, logs, kickoffs, repo_context, error,
                   result, report>>

\* triage_failure.py:137-141: the file is opened and read with no try around it
TriageLoadConfig ==
    /\ pc = "load_config"
    /\ CASE env.config = "missing" ->
               /\ Uncaught("No such file or directory: 'seed_instructions.yaml'")
               /\ config' = config
         [] env.config = "empty" ->
               /\ Uncaught("'NoneType' object has no attribute 'get'")
               /\ config' = config
         [] OTHER ->
               /\ config' = TestConfig
               /\ pc' = "collect_logs"
               /\ UNCHANGED <<error, exit_code>>
    /\ UNCHANGED <<triage_fixed, http_log, logs, kickoffs, repo_context, result, report,
                   args>>

\* triage_failure.py:144-146: the logs are read; nothing is written
CollectLogs ==
    /\ pc = "collect_logs"
    /\ pc' = "construct_github"
    /\ UNCHANGED <<triage_fixed, config, http_log, logs, kickoffs, repo_context, error,
                   result, report, args, exit_code>>

\* triage_failure.py:149
TriageConstructGitHub ==
    /\ pc = "construct_github"
    /\ IF GitHubIntegration(env.token).raised
       THEN Uncaught(GitHubIntegration(env.token).exc)
       ELSE /\ pc' = "get_structure"
            /\ UNCHANGED <<error, exit_code>>
    /\ UNCHANGED <<triage_fixed, config, http_log, logs, kickoffs, repo_context, result,
                   report, args>>

\* One awaited request of the client for the repository context
\* (triage_failure.py:152-155)
ContextFetched(call, key, next) ==
    /\ http_log' = http_log \o call.sent
    /\ logs' = logs \o call.logged
    /\ IF call.raised
       THEN /\ Uncaught(call.exc)
            /\ repo_context' = repo_context
       ELSE /\ repo_context' = (key :> call.value) @@ repo_context
            /\ pc' = next
            /\ UNCHANGED <<error, exit_code>>

TriageGetStructure ==
    /\ pc = "get_structure"
    /\ \E r \in RunTreeResponses :
         ContextFetched(get_repository_structure(git_remote, r), "structure", "get_commits")
    /\ UNCHANGED <<triage_fixed, config, kickoffs, result, report, args>>

TriageGetCommits ==
    /\ pc = "get_commits"
    /\ \E r \in RunCommitResponses :
         ContextFetched(get_recent_commits(git_remote, RecentCommitCount, r),
                        "recent_changes", "report")
    /\ UNCHANGED <<triage_fixed, config, kickoffs, result, report, args>>

\* The logs as main_async collected them (triage_failure.py:140-146)
failure_cfg == failure_reporting(env.config)
tail == tail_of(args, failure_cfg)
collected == collect_logs_excerpt(env.logs_root, tail)

\* triage_failure.py:169-181: what the report step leaves behind
Reported(call) ==
    /\ logs' = logs \o call.logged
    /\ kickoffs' = kickoffs + call.kickoffs
    /\ IF call.raised
       THEN /\ Uncaught(call.exc)
            /\ report' = report
       ELSE /\ report' = call.value
            /\ pc' = "create_issue"
            /\ UNCHANGED <<error, exit_code>>

ProduceReport ==
    /\ pc = "report"
    /\ \E run \in RunCrews :
         Reported(report_md(env.credentials, config,
                            triage_input(args, collected, repo_context, tail),
                            simple_summary(args.workflow_name, collected.jobs_summary,
                                           collected.excerpt, tail),
                            run))
    /\ UNCHANGED <<triage_fixed, config, http_log, repo_context, result, args>>

\* triage_failure.py:203-207, and the return of main (triage_failure.py:221-223)
IssueCreated(call) ==
    /\ http_log' = http_log \o call.sent
    /\ IF call.raised
       THEN /\ Uncaught(call.exc)
            /\ logs' = logs \o call.logged
            /\ result' = result
       ELSE /\ result' = call.value
            /\ logs' = logs \o call.logged
                  \o <<IF call.value.success
                       THEN LogRec("INFO", "Triage issue ready: #"
                                               \o ToString(call.value.issue_number))
                       ELSE LogRec("ERROR", "Failed to create triage issue: "
                                                \o call.value.error)>>
            /\ pc' = "exited"
            /\ exit_code' = 0
            /\ error' = error

CreateIssue ==
    /\ pc = "create_issue"
    /\ \E r_search \in IssueSearchResponses, r_write \in IssueWriteResponses :
         IssueCreated(create_issue(git_remote, issue_title(args),
                                   issue_body(args, report, collected.jobs_summary,
                                              build_logs_details_markdown(env.logs_root,
                                                                          tail),
                                              tail),
                                   issue_labels(failure_cfg),
                                   dedupe_label(issue_labels(failure_cfg)),
                                   r_search, r_write))
    /\ UNCHANGED <<triage_fixed, config, kickoffs, repo_context, report, args>>

NextTriage ==
    \/ TriageParseArgs
    \/ TriageLoadConfig
    \/ CollectLogs
    \/ TriageConstructGitHub
    \/ TriageGetStructure
    \/ TriageGetCommits
    \/ ProduceReport
    \/ CreateIssue

SpecTriage == InitTriage /\ [][NextTriage]_vars

(* Properties of the triage entry point *)

\* The statement of C5 as it stands: every triage run whose command line
\* parses ends with exit code 0, whatever the configuration file and the
\* access token are.
C5_TriageAlwaysExitsZero ==
    (Exited /\ env.argv_ok) => exit_code = 0 /\ error = ""

\* C5: a triage run whose command line parses, whose configuration file loads
\* and whose access token is set ends with exit code 0 and no exception
\* leaves main, for every outcome of log collection, of the triager and of
\* issue creation.
C5_TriageExitsZero ==
    /\ (Exited /\ env.argv_ok /\ env.config \notin {"missing", "empty"} /\ env.token # "")
          => exit_code = 0 /\ error = "" /\ DOMAIN result # {}
    /\ (pc \notin {"parse_args", "load_config", "collect_logs", "construct_github"})
          => (Exited \/ error = "")

\* The triager raised, issue creation failed, and the run still ended with 0
C5_Witness ==
    /\ Exited
    /\ exit_code = 0
    /\ env.credentials = "available"
    /\ \E i \in DOMAIN logs :
          Prefix(logs[i].msg, 21) = "Triager unavailable, "
    /\ Prefix(report, 34) = "### Auto-Triage Summary (fallback)"
    /\ result.success = FALSE

\* C11: the result of execute_evolution_workflow has success = false exactly
\* when an exception was raised while the steps were built, the crew was
\* constructed or run, or its result was processed; with an empty roster
\* the result has success = false; without such an exception it has
\* success = true. (A missing template variable and an unreadable step output
\* are absorbed where they occur and are no such exception.)
C11_SuccessIffNoError ==
    (Returns /\ op = "execute_evolution_workflow") =>
        /\ result.value.success \in BOOLEAN
        /\ result.value.success = FALSE <=> SequencingRaises
        /\ agents = {} => result.value.success = FALSE
        /\ result.value.success = FALSE => "error" \in DOMAIN result.value

C11_Witness ==
    /\ Returns
    /\ op = "execute_evolution_workflow"
    /\ agents = {}
    /\ responses[1] = RunOk
    /\ result.value.success = FALSE
    /\ result.value.error = "'planner'"
    /\ kickoffs = 0

\* C12: _create_tasks builds exactly five steps, for planner, coder, tester,
\* documenter, deployer in this order; the context of each step holds only
\* steps strictly earlier in the list and the first step has none; a crew is
\* started only with these five steps.
C12_FiveStepsInOrder ==
    /\ (Returns /\ op = "_create_tasks" /\ ~result.raised) =>
          /\ [i \in DOMAIN result.value |-> result.value[i].agent]
                = <<"planner", "coder", "tester", "documenter", "deployer">>
          /\ result.value[1].context = <<>>
          /\ \A i \in DOMAIN result.value :
                \A k \in DOMAIN result.value[i].context :
                    result.value[i].context[k] \in 1..(i - 1)
    /\ (Returns /\ op = "_create_tasks" /\ result.raised) =>
          \E i \in DOMAIN pipeline :
              \/ pipeline[i] \notin agents
              \/ RaisingTemplate(prompt_template(config, pipeline[i]))
    /\ (Returns /\ op = "execute_evolution_workflow" /\ kickoffs > 0) =>
          {"planner", "coder", "tester", "documenter", "deployer"} \subseteq agents

C12_Witness ==
    /\ Returns
    /\ op = "_create_tasks"
    /\ ~result.raised
    /\ Len(result.value) = 5
    /\ result.value[2].context = <<1>>
    /\ result.value[5].context = <<2>>
    /\ result.value[5].agent = "deployer"

\* The text _extract_task_output gives for the output of one step
SummaryOfOutput(output) ==
    IF output.text = "" THEN "Task completed but no detailed output available"
    ELSE IF output.str_raises THEN "Task output extraction failed"
    ELSE Prefix(output.text, SummaryLimit)

SummaryFields ==
    <<"planning_summary", "implementation_summary", "testing_summary",
      "documentation_summary", "deployment_notes">>

-----------------------------------------------------------------------------
(* _format_prompt of the crew manager, called on its own, twice in a row,    *)
(* with templates and contexts of every kind                                 *)

\* Format strings: the two of tests/test_agents.py:214,226, ones without a
\* placeholder, with escaped braces, with several missing names, and ones
\* str.format rejects ({} and {0}, a lone brace, an attribute of a string)
PromptTemplates ==
    {<<Lit("Task: "), Field("task_name"), Lit(", Issue: "), Field("issue_number")>>,
     <<Lit("Task: "), Field("task_name"), Lit(", Issue: "), Field("missing_var")>>,
     <<Field("missing_var"), Lit(" "), Field("other_missing")>>,
     <<>>,
     <<Lit("no placeholders")>>,
     <<Escaped("{"), Field("task_name"), Escaped("}")>>,
     <<Lit("Plan "), Auto("")>>,
     <<Auto("0")>>,
     <<Field("task_name"), Brace("{")>>,
     <<Brace("}")>>,
     <<Attr("task_name")>>,
     <<Field("missing_var"), Brace("}")>>,
     <<Auto(""), Field("missing_var")>>}

\* Context mappings; a value is the text str() gives for it
PromptContexts ==
    {[task_name |-> "implement auth", issue_number |-> ToString(123)],
     [task_name |-> "implement auth"],
     [name \in {} |-> ""],
     [task_name |-> "", issue_number |-> ToString(7)],
     [task_name |-> "{missing_var}", issue_number |-> ToString(1)],
     [task_name |-> "a", issue_number |-> ToString(1), missing_var |-> "x"]}

InitPrompt ==
    /\ app_features = InitialFeatures
    /\ evolution_log = <<>>
    /\ git_remote \in {g \in GitRemotes : g.ran /\ g.url # ""}
    /\ config = TestConfig
    /\ agents = all_roles
    /\ request \in {r \in Requests : r.issue_number = 123}
    /\ pc = "idle"
    /\ calls = <<>>
    /\ http_log = <<>>
    /\ logs = <<>>
    /\ kickoffs = 0
    /\ repo_context = <<>>
    /\ workflow_result = <<>>
    /\ pr_result = <<>>
    /\ error = ""
    /\ returned = "pending"
    /\ op = ""
    /\ responses = <<>>
    /\ result = <<>>
    /\ env = <<>>
    /\ args = <<>>
    /\ report = ""
    /\ exit_code = -1

prompt_fixed == <<demo_vars, git_remote, config, agents, request, calls, http_log, kickoffs,
                  repo_context, workflow_result, pr_result, error, returned, env, report,
                  exit_code>>

\* One call of _format_prompt: how it ended and what it logged
Rendered(call) ==
    /\ result' = [raised |-> call.raised, exc |-> call.exc, value |-> call.value]
    /\ logs' = call.logged

CallFormatPrompt ==
    /\ pc = "idle"
    /\ \E template \in PromptTemplates, context \in PromptContexts :
         /\ args' = [template |-> template, context |-> context]
         /\ Rendered(_format_prompt(template, context))
    /\ pc' = "rendered"
    /\ op' = "_format_prompt"
    /\ responses' = responses
    /\ UNCHANGED prompt_fixed

\* The same call once more, with the same template and context
CallFormatPromptAgain ==
    /\ pc = "rendered"
    /\ Rendered(_format_prompt(args.template, args.context))
    /\ responses' = <<result>>
    /\ pc' = "rendered_again"
    /\ UNCHANGED <<prompt_fixed, op, args>>

NextPrompt ==
    \/ CallFormatPrompt
    \/ CallFormatPromptAgain

SpecPrompt == InitPrompt /\ [][NextPrompt]_vars

(* Properties of _format_prompt *)

HasRendered == pc \in {"rendered", "rendered_again"}

\* The template has only literal text, escaped braces and {name} placeholders
NamedOnly(t) == \A i \in DOMAIN t : t[i].kind \in {"lit", "escaped", "field"}

\* The context lacks a name of the template
LacksName(t, context) ==
    \E i \in DOMAIN t : t[i].kind = "field" /\ t[i].text \notin DOMAIN context

Warnings == SelectSeq(logs, LAMBDA l : l.level = "WARNING")

C15_FormatPromptNeverRaises ==
    HasRendered =>
        /\ ~result.raised
        /\ \/ result.value = TemplateSource(args.template)
           \/ logs = <<>>

-----------------------------------------------------------------------------
(* Construction of the crew manager: CrewManager(config, mode) with a       *)
(* config whose agents section leaves out a role or some of its fields       *)

AgentFields == {"role", "goal", "backstory"}

\* The defaults written in _create_agents (crew_manager.py:88-90, 102-104,
\* 115-117, 128-130, 141-143, 154-156, 167-169, 181-183)
RoleDefaults ==
    [planner |-> [role |-> "Strategic Planning Agent",
                  goal |-> "Create comprehensive implementation plans",
                  backstory |-> "Expert software architect"],
     coder |-> [role |-> "Implementation Agent",
                goal |-> "Generate high-quality, maintainable code",
                backstory |-> "Senior software engineer"],
     tester |-> [role |-> "Quality Assurance Agent",
                 goal |-> "Ensure comprehensive test coverage",
                 backstory |-> "Testing specialist"],
     documenter |-> [role |-> "Documentation Agent",
                     goal |-> "Maintain comprehensive documentation",
                     backstory |-> "Technical writer"],
     deployer |-> [role |-> "Deployment Agent",
                   goal |-> "Handle deployment configurations",
                   backstory |-> "DevOps engineer"],
     evolver |-> [role |-> "System Evolution Agent",
                  goal |-> "Continuously improve the AI system",
                  backstory |-> "Machine learning engineer"],
     triager |-> [role |-> "Failure Triage Agent",
                  goal |-> "Distill failing workflow logs into actionable issues",
                  backstory |-> "Reliability engineer for CI/CD diagnostics"]]

\* Agent(role=cfg.get('role', default), goal=..., backstory=...) for one role
Agent(name, agents_config) ==
    [f \in AgentFields |-> Get(Get(agents_config, name, <<>>), f, RoleDefaults[name][f])]

\* crew_manager.py:77-81: the list of common tools calls FileWriteTool, a
\* name the module does not define (crew_manager.py:12 imports
\* FileWriterTool), so evaluating the list raises NameError
common_tools == Raised("name 'FileWriteTool' is not defined", <<>>, <<>>)

\* crew_manager.py:86-87, 178-179: the triager is created only when the
\* config has a non-empty triager entry
triager_agents(agents_config) ==
    IF Get(agents_config, "triager", <<>>) # <<>>
    THEN "triager" :> Agent("triager", agents_config)
    ELSE <<>>

\* _create_agents (crew_manager.py:66-191) with the mode and the agents
\* section of the config: a map from role name to agent
create_agents_of(llm, mode, agents_config) ==
    IF llm = "None" THEN Returned(<<>>, <<>>, <<>>)
    ELSE IF common_tools.raised THEN common_tools
    ELSE IF mode = "triage" THEN Returned(triager_agents(agents_config), <<>>, <<>>)
    ELSE Returned([name \in all_roles \ {"triager"} |-> Agent(name, agents_config)]
                      @@ triager_agents(agents_config), <<>>, <<>>)

\* CrewManager.__init__ (crew_manager.py:27-38) with its two arguments
CrewManagerOf(llm_state, mode, agents_config) ==
    [create_agents_of(_initialize_llm(llm_state).llm, mode, agents_config)
        EXCEPT !.logged = _initialize_llm(llm_state).logged \o @]

\* An entry of the agents section that sets the given fields
CustomEntry(fields) == [f \in fields |-> "Custom " \o f]

\* Agents sections: every role fully configured except one, whose entry is
\* absent or lacks any subset of role, goal, backstory
AgentConfigs ==
    {[name \in all_roles \ {omitted} |-> CustomEntry(AgentFields)] : omitted \in all_roles}
    \cup {[name \in all_roles |->
              IF name = partial THEN CustomEntry(fields) ELSE CustomEntry(AgentFields)] :
          partial \in all_roles, fields \in SUBSET AgentFields}

Modes == {"full", "triage"}

InitRoster ==
    /\ app_features = InitialFeatures
    /\ evolution_log = <<>>
    /\ git_remote \in {g \in GitRemotes : g.ran /\ g.url # ""}
    /\ config \in AgentConfigs
    /\ agents = <<>>
    /\ request \in {r \in Requests : r.issue_number = 123}
    /\ pc = "idle"
    /\ calls = <<>>
    /\ http_log = <<>>
    /\ logs = <<>>
    /\ kickoffs = 0
    /\ repo_context = <<>>
    /\ workflow_result = <<>>
    /\ pr_result = <<>>
    /\ error = ""
    /\ returned = "pending"
    /\ op = ""
    /\ responses = <<>>
    /\ result = <<>>
    /\ env \in [llm : LlmStates, mode : Modes]
    /\ args = <<>>
    /\ report = ""
    /\ exit_code = -1

\* crew_manager = CrewManager(config, mode)
Construct(manager) ==
    /\ result' = [raised |-> manager.raised, exc |-> manager.exc]
    /\ agents' = IF manager.raised THEN agents ELSE manager.value
    /\ logs' = manager.logged

ConstructCrew ==
    /\ pc = "idle"
    /\ Construct(CrewManagerOf(env.llm, env.mode, config))
    /\ pc' = "constructed"
    /\ op' = "CrewManager"
    /\ UNCHANGED <<demo_vars, git_remote, config, request, calls, http_log, kickoffs, repo_context,
                   workflow_result, pr_result, error, returned, responses, env, args,
                   report, exit_code>>

NextRoster == ConstructCrew

SpecRoster == InitRoster /\ [][NextRoster]_vars

\* C16: a crew manager built in full mode with a completion client available
\* has all seven roles in its roster, and every field (role, goal, backstory)
\* that the config leaves out for a role, with the role's entry or without
\* it, has the default written in the code.
C16_RosterHasDefaults ==
    (pc = "constructed" /\ env.mode = "full" /\ env.llm = "available") =>
        /\ ~result.raised
        /\ \A name \in all_roles :
              /\ name \in DOMAIN agents
              /\ \A f \in AgentFields :
                    f \notin DOMAIN Get(config, name, <<>>) =>
                        agents[name][f] = RoleDefaults[name][f]

-----------------------------------------------------------------------------
(* tail_lines and collect_logs_excerpt of the triage script, called on      *)
(* their own                                                                 *)

\* Log texts: the one of tests/test_workflows.py:179, the empty text, texts
\* with and without a final newline and with empty lines
LogTexts ==
    {"Line 1\nLine 2\nLine 3\nLine 4\nLine 5", "", "one", "one\n", "\n", "a\n\nb",
     "a\nb\n", "a\nb\nc", "\n\n", "x\ny", "tail\n\n", "1\n2\n3\n4\n5\n6\n7"}

MaxTailCount == 7

\* Log directories: the ones of the triage runs, a directory whose only log
\* file cannot be read, and an empty directory
CollectRoots ==
    LogRoots
    \cup {[exists |-> TRUE, others |-> <<>>,
           files |-> <<LogFile("job.txt", <<"secret">>, FALSE)>>],
          [exists |-> TRUE, others |-> <<>>, files |-> <<>>]}

CollectTails == {0, 1, 2, 10}

InitLogs ==
    /\ app_features = InitialFeatures
    /\ evolution_log = <<>>
    /\ git_remote \in {g \in GitRemotes : g.ran /\ g.url # ""}
    /\ config = TestConfig
    /\ agents = <<>>
    /\ request \in {r \in Requests : r.issue_number = 123}
    /\ pc = "idle"
    /\ calls = <<>>
    /\ http_log = <<>>
    /\ logs = <<>>
    /\ kickoffs = 0
    /\ repo_context = <<>>
    /\ workflow_result = <<>>
    /\ pr_result = <<>>
    /\ error = ""
    /\ returned = "pending"
    /\ op = ""
    /\ responses = <<>>
    /\ result = <<>>
    /\ env = <<>>
    /\ args = <<>>
    /\ report = ""
    /\ exit_code = -1

logs_fixed == <<demo_vars, git_remote, config, agents, request, calls, http_log, logs, kickoffs,
                repo_context, workflow_result, pr_result, error, returned, responses,
                env, report, exit_code>>

\* tail_lines(text, n) (triage_failure.py:35-37)
CallTailLines ==
    /\ pc = "idle"
    /\ \E text \in LogTexts, n \in 0..MaxTailCount :
         /\ args' = [text |-> text, n |-> n]
         /\ result' = [raised |-> FALSE, exc |-> "",
                       value |-> tail_lines(splitlines(text), n)]
    /\ op' = "tail_lines"
    /\ pc' = "returned"
    /\ UNCHANGED logs_fixed

\* collect_logs_excerpt(root, tail) (triage_failure.py:40-64)
CallCollectLogsExcerpt ==
    /\ pc = "idle"
    /\ \E root \in CollectRoots, n \in CollectTails :
         /\ args' = [root |-> root, tail |-> n]
         /\ result' = [raised |-> FALSE, exc |-> "",
                       value |-> collect_logs_excerpt(root, n)]
    /\ op' = "collect_logs_excerpt"
    /\ pc' = "returned"
    /\ UNCHANGED logs_fixed

NextLogs ==
    \/ CallTailLines
    \/ CallCollectLogsExcerpt

SpecLogs == InitLogs /\ [][NextLogs]_vars

\* The last n of the lines
LastLines(lines, n) == [i \in 1..n |-> lines[Len(lines) - n + i]]

\* C17: tail_lines(text, n) is the last n lines of the text joined by
\* newlines when 0 < n < the number of lines, and all the lines of the text
\* joined by newlines when n is at least the number of lines and when n = 0
\* (never the empty string for a text that has lines).
C17_TailLines ==
    (op = "tail_lines" /\ pc = "returned") =>
        /\ (0 < args.n /\ args.n < Len(splitlines(args.text))) =>
              result.value = Join("\n", LastLines(splitlines(args.text), args.n))
        /\ (args.n >= Len(splitlines(args.text)) \/ args.n = 0) =>
              result.value = Join("\n", splitlines(args.text))

C17_Witness ==
    /\ op = "tail_lines"
    /\ pc = "returned"
    /\ args = [text |-> "Line 1\nLine 2\nLine 3\nLine 4\nLine 5", n |-> 3]
    /\ result.value = "Line 3\nLine 4\nLine 5"

\* The root has no *.txt or *.log file, or does not exist
NoLogFiles(root) == ~root.exists \/ root.files = <<>>

\* C18 as stated: for a root that does not exist, and for one without log
\* files, the summary is the "no log files found" one and the excerpt is
\* "No logs available."
C18_NoLogFilesSummary ==
    (op = "collect_logs_excerpt" /\ pc = "returned" /\ NoLogFiles(args.root)) =>
        /\ ~result.raised
        /\ Contains(Lower(result.value.jobs_summary), "no log files found")
        /\ result.value.excerpt = "No logs available."

\* C18: collect_logs_excerpt never raises; for a root that does not exist it
\* returns the summary "Logs root not found.", for an existing root without
\* *.txt or *.log files the summary "No log files found.", both with the
\* excerpt "No logs available."; a file that cannot be read appears neither
\* in the summary nor in the excerpt, and every file that can be read appears
\* in both.
C18_CollectLogs ==
    (op = "collect_logs_excerpt" /\ pc = "returned") =>
        /\ ~result.raised
        /\ ~args.root.exists =>
              result.value = [jobs_summary |-> "Logs root not found.",
                              excerpt |-> "No logs available."]
        /\ (args.root.exists /\ args.root.files = <<>>) =>
              result.value = [jobs_summary |-> "No log files found.",
                              excerpt |-> "No logs available."]
        /\ \A i \in DOMAIN args.root.files :
              LET f == args.root.files[i]
              IN  /\ Contains(result.value.jobs_summary, "- " \o f.rel) <=> f.readable
                  /\ Contains(result.value.excerpt, "===== " \o f.rel \o " =====")
                        <=> f.readable

C18_Witness ==
    /\ op = "collect_logs_excerpt"
    /\ pc = "returned"
    /\ ~args.root.exists
    /\ result.value.jobs_summary = "Logs root not found."
    /\ result.value.excerpt = "No logs available."

-----------------------------------------------------------------------------
(* src/main.py: the demo service.  A response is [status_code, content].    *)

\* Python "x in xs" on a list
InList(x, xs) == \E i \in DOMAIN xs : xs[i] = x

\* Variant: a named feature is appended whether or not it is in the list
add_feature_always_appends(feature, features) ==
    IF "name" \notin DOMAIN feature \/ feature.name = ""
    THEN [raised |-> TRUE, status_code |-> 400, detail |-> "Feature name is required",
          features |-> features, logged |-> <<>>]
    ELSE [raised |-> FALSE, status_code |-> 200,
          content |-> [message |-> "Feature added successfully", feature |-> feature.name],
          features |-> Append(features, feature.name),
          logged |-> <<LogRec("INFO", "Added new feature: " \o feature.name)>>]

\* Variant: only a missing name is refused, an empty one is added
add_feature_empty_name(feature, features) ==
    IF "name" \notin DOMAIN feature
    THEN [raised |-> TRUE, status_code |-> 400, detail |-> "Feature name is required",
          features |-> features, logged |-> <<>>]
    ELSE IF ~InList(feature.name, features)
    THEN [raised |-> FALSE, status_code |-> 200,
          content |-> [message |-> "Feature added successfully", feature |-> feature.name],
          features |-> Append(features, feature.name),
          logged |-> <<LogRec("INFO", "Added new feature: " \o feature.name)>>]
    ELSE [raised |-> FALSE, status_code |-> 200,
          content |-> [message |-> "Feature already exists", feature |-> feature.name],
          features |-> features, logged |-> <<>>]

\* add_feature (src/main.py:156-186) on the request body and the feature
\* list: feature.get("name") is None for a body without the key, and both
\* None and "" are falsy; features is the list the handler leaves behind
add_feature(feature, features) ==
    IF "name" \notin DOMAIN feature \/ feature.name = ""
    THEN [raised |-> TRUE, status_code |-> 400, detail |-> "Feature name is required",
          features |-> features, logged |-> <<>>]
    ELSE IF ~InList(feature.name, features)
    THEN [raised |-> FALSE, status_code |-> 200,
          content |-> [message |-> "Feature added successfully", feature |-> feature.name],
          features |-> Append(features, feature.name),
          logged |-> <<LogRec("INFO", "Added new feature: " \o feature.name)>>]
    ELSE [raised |-> FALSE, status_code |-> 200,
          content |-> [message |-> "Feature already exists", feature |-> feature.name],
          features |-> features, logged |-> <<>>]

\* http_exception_handler (src/main.py:188-207); now is datetime.now().isoformat()
http_exception_handler(exc, now) ==
    [status_code |-> exc.status_code,
     content |-> [error |-> exc.detail, status_code |-> exc.status_code, timestamp |-> now]]

\* The response the framework sends for a call of a handler
Response(call, now) ==
    IF call.raised THEN http_exception_handler(call, now)
    ELSE [status_code |-> call.status_code, content |-> call.content]

\* Request bodies of POST /features: without a name (the one of
\* tests/test_main.py:193 and the empty object), with an empty name, with
\* the name of an existing feature (tests/test_main.py:184) and with new names
FeatureBodies ==
    {[description |-> "Missing name"],
     <<>>,
     [name |-> ""],
     [name |-> "", description |-> "Empty name"],
     [name |-> "Health Check"],
     [name |-> "Test Feature"],
     [name |-> "Dark Mode", description |-> "A theme"]}

Timestamps == {"2024-01-15T10:30:00", "2024-01-15T10:30:01"}

\* Bodies of POST /evolution-log that pass validation
EvolutionEntries ==
    {[timestamp |-> "2024-01-15T10:30:00", issue_number |-> 123,
      description |-> "Add user authentication", agent_summary |-> "Implemented JWT",
      status |-> "completed"],
     [timestamp |-> "2024-01-15T10:30:01", issue_number |-> 124,
      description |-> "Add dark mode", agent_summary |-> "Added a theme",
      status |-> "failed"]}

MaxLogEntries == 2

InitDemo ==
    /\ app_features = InitialFeatures
    /\ evolution_log = <<>>
    /\ git_remote \in {g \in GitRemotes : g.ran /\ g.url # ""}
    /\ config = <<>>
    /\ agents = <<>>
    /\ request \in {r \in Requests : r.issue_number = 123}
    /\ pc = "serving"
    /\ calls = <<>>
    /\ http_log = <<>>
    /\ logs = <<>>
    /\ kickoffs = 0
    /\ repo_context = <<>>
    /\ workflow_result = <<>>
    /\ pr_result = <<>>
    /\ error = ""
    /\ returned = "pending"
    /\ op = ""
    /\ responses = <<>>
    /\ result = <<>>
    /\ env = <<>>
    /\ args = <<>>
    /\ report = ""
    /\ exit_code = -1

demo_fixed == <<git_remote, config, agents, request, pc, calls, http_log, kickoffs,
                repo_context, workflow_result, pr_result, error, returned, responses, env,
                report, exit_code>>

\* What a call of add_feature leaves behind
FeatureAdded(call, now) ==
    /\ app_features' = call.features
    /\ logs' = logs \o call.logged
    /\ result' = Response(call, now)

\* POST /features (src/main.py:156-186)
AddFeature ==
    /\ \E feature \in FeatureBodies, now \in Timestamps :
         /\ args' = [feature |-> feature]
         /\ FeatureAdded(add_feature(feature, app_features), now)
    /\ op' = "add_feature"
    /\ UNCHANGED <<demo_fixed, evolution_log>>

\* POST /evolution-log (src/main.py:127-144)
AddEvolutionEntry ==
    /\ Len(evolution_log) < MaxLogEntries
    /\ \E entry \in EvolutionEntries :
         /\ args' = [entry |-> entry]
         /\ evolution_log' = Append(evolution_log, entry)
         /\ logs' = Append(logs, LogRec("INFO", "Added evolution entry for issue #"
                                                  \o ToString(entry.issue_number)))
         /\ result' = [status_code |-> 200,
                       content |-> [message |-> "Evolution entry added successfully",
                                    issue_number |-> ToString(entry.issue_number)]]
    /\ op' = "add_evolution_entry"
    /\ UNCHANGED <<demo_fixed, app_features>>

\* GET /features (src/main.py:146-154)
GetFeatures ==
    /\ args' = <<>>
    /\ result' = [status_code |-> 200, content |-> app_features]
    /\ op' = "get_features"
    /\ UNCHANGED <<demo_fixed, demo_vars, logs>>

NextDemo ==
    \/ AddFeature
    \/ AddEvolutionEntry
    \/ GetFeatures

SpecDemo == InitDemo /\ [][NextDemo]_vars

\* The request body carries no name, or an empty one
Nameless(feature) == "name" \notin DOMAIN feature \/ feature.name = ""

\* C19: a feature-add request without a name, or with an empty name, is
\* answered with status 400 and an error body that contains "Feature name is
\* required", and leaves the feature list and the evolution log as they were.
C19_NamelessFeatureRefused ==
    [][(op' = "add_feature" /\ Nameless(args'.feature)) =>
          /\ result'.status_code = 400
          /\ Contains(result'.content.error, "Feature name is required")
          /\ app_features' = app_features
          /\ evolution_log' = evolution_log]_vars

C19_Witness ==
    /\ op = "add_feature"
    /\ args.feature = [description |-> "Missing name"]
    /\ result.status_code = 400
    /\ result.content.error = "Feature name is required"
    /\ Len(app_features) = 4
    /\ Len(evolution_log) = 1

-----------------------------------------------------------------------------
(* No stage and no request of a run of process_evolution_request is repeated *)

\* How many times the stage was called, and the request sent, in the run
TimesCalled(stage) == Cardinality({i \in DOMAIN calls : calls[i] = stage})
TimesSent(q) == Cardinality({i \in DOMAIN http_log : http_log[i] = q})

\* GET .../git/trees/main?recursive=1, which get_repository_structure,
\* get_test_files and get_documentation_files each send
IsTreeGet(q) == q.method = "GET" /\ Contains(q.url, "/git/trees/")

\* The operations of a run that read the tree
TreeReaders == {"get_repository_structure", "get_test_files", "get_documentation_files"}

\* C20: nothing is retried in a run of process_evolution_request: branch
\* creation, the agent workflow, pull-request creation, the evolver analysis
\* and the failure comment are each called at most once, a crew is started
\* at most once by the workflow and once by the analysis, and every HTTP
\* request is sent at most once by the operation that sends it (the tree
\* listing, which three operations of a run request, at most three times,
\* every other request at most once in the whole run).
C20_NothingRetried ==
    /\ \A stage \in {"create_branch", "_execute_agent_workflow", "_create_pull_request",
                     "_post_process_evolution", "_handle_evolution_failure"} :
          TimesCalled(stage) <= 1
    /\ kickoffs <= TimesCalled("_execute_agent_workflow")
                      + TimesCalled("_post_process_evolution")
    /\ \A i \in DOMAIN http_log :
          IF IsTreeGet(http_log[i])
          THEN TimesSent(http_log[i]) <= Cardinality(TreeReaders)
          ELSE TimesSent(http_log[i]) = 1

C20_Witness ==
    /\ pc = "done"
    /\ calls = <<"_gather_repository_context", "create_branch", "_execute_agent_workflow",
                 "_create_pull_request", "_post_process_evolution",
                 "_handle_evolution_failure">>
    /\ kickoffs = 1
    /\ Len(PullPosts) = 1
    /\ Len(CommentPosts) = 1
    /\ Len(SelectSeq(http_log, IsTreeGet)) = Cardinality(TreeReaders)

-----------------------------------------------------------------------------
(* What a run that returns True has achieved *)

\* create_branch returned True in the run: its success record is in the log
\* (github_integration.py:199-200)
BranchCreated ==
    \E i \in DOMAIN logs :
        /\ logs[i].level = "INFO"
        /\ logs[i].msg = "Successfully created branch: " \o request.branch_name

\* create_pull_request returned a result with success = True
PullRequestCreated == DOMAIN pr_result # {} /\ pr_result.success

\* C21: a run of process_evolution_request returns True only if create_branch
\* returned True and create_pull_request returned success = True; a failure
\* value of either makes the run return False.
C21_SuccessNeedsBranchAndPullRequest ==
    returned = "True" => (BranchCreated /\ PullRequestCreated)

\* The failure handler of the run was entered
FailureHandlerReached ==
    pc = "handle_failure" \/ TimesCalled("_handle_evolution_failure") > 0

\* C22: no run both submits a pull request and reaches the failure handler,
\* as long as the stages are the ones of the repository, which swallow their
\* own errors: when both happen, the exception handled is one raised by a
\* substituted collaborator, never one of create_pull_request or of the
\* evolver analysis.
C22_NoCommentAfterPullRequest ==
    (PullPosts # <<>> /\ FailureHandlerReached) => error \in StageErrors

C22_Witness ==
    /\ pc = "done"
    /\ returned = "True"
    /\ Len(PullPosts) = 1
    /\ ~pr_result.success
    /\ Logged("Evolution analysis failed: ")
    /\ CommentPosts = <<>>
    /\ ~FailureHandlerReached

-----------------------------------------------------------------------------
(* The upstream context of the workflow steps *)

\* _create_tasks returned its list of five tasks
TasksCreated == Returns /\ op = "_create_tasks" /\ ~result.raised

\* The context=[...] of the step at position i, as positions in the list
ContextOf(i) == result.value[i].context

\* The statement of C23 as it stands: the context of every step after the
\* first is the step immediately before it.
C23_ContextIsPreviousStep ==
    TasksCreated => \A i \in 2..Len(result.value) : ContextOf(i) = <<i - 1>>

\* C23: the coder step has the planner step as its upstream context, and the
\* tester, documenter and deployer steps each have the coder step (the
\* implementation) as theirs; the planner step has none.
C23_ContextIsPlanThenImplementation ==
    TasksCreated =>
        /\ Len(result.value) = 5
        /\ ContextOf(1) = <<>>
        /\ ContextOf(2) = <<1>> /\ result.value[1].agent = "planner"
        /\ \A i \in 3..5 : ContextOf(i) = <<2>>
        /\ result.value[2].agent = "coder"

C23_Witness ==
    /\ TasksCreated
    /\ result.value[4].agent = "documenter"
    /\ ContextOf(4) = <<2>>
    /\ ContextOf(3) = <<2>>
    /\ result.value[3].agent = "tester"

-----------------------------------------------------------------------------
(* The repository context of a run as a snapshot of the remote tree *)

\* The paths get_test_files and get_documentation_files pick from a tree
\* (github_integration.py:156-159, 168-171)
TestPaths(tree) ==
    LET IsTest(item) == Contains(Lower(item.path), "test") /\ EndsWith(item.path, ".py")
    IN Paths(SelectSeq(tree, IsTest))

DocPaths(tree) ==
    LET IsDoc(item) == \E ind \in {"doc", "readme", ".md"} : Contains(Lower(item.path), ind)
    IN Paths(SelectSeq(tree, IsDoc))

\* _gather_repository_context has filled every entry of the context
ContextGathered ==
    {"structure", "existing_tests", "documentation"} \subseteq DOMAIN repo_context

\* C24: the tree of the repository is requested from the remote exactly once
\* in a run, and the test files and the documentation files of the context
\* are the ones of the tree its structure entry holds.
C24_SingleTreeSnapshot ==
    /\ Len(SelectSeq(http_log, IsTreeGet)) <= 1
    /\ ContextGathered =>
          /\ Len(SelectSeq(http_log, IsTreeGet)) = 1
          /\ repo_context.existing_tests = TestPaths(repo_context.structure.tree)
          /\ repo_context.documentation = DocPaths(repo_context.structure.tree)

-----------------------------------------------------------------------------
(* run_triage_report of the crew manager, called on its own *)

\* Agents sections: a triager template whose names the input has, no triager
\* entry (the template is then ''), and a template str.format rejects
ReportConfigs ==
    {"triager" :> [prompt_template |-> <<Lit("Triage "), Field("workflow_name"),
                                         Lit(":\n"), Field("logs_excerpt")>>],
     TestConfig,
     "triager" :> [prompt_template |-> <<Lit("Triage "), Auto("")>>]}

\* Triage inputs: a short excerpt, one longer than the budget, an empty one
\* and none
ReportInputs ==
    {[workflow_name |-> "CI", logs_excerpt |-> "===== test.log =====\n1 failed\n"],
     [workflow_name |-> "CI", logs_excerpt |-> Repeat("x", RawExcerptLimit + 1)],
     [workflow_name |-> "CI", logs_excerpt |-> ""],
     [workflow_name |-> "CI"]}

\* Crews: one that reports, one whose result is empty, one whose kickoff
\* raises and one whose result has no text form
ReportRuns ==
    {[RunOk EXCEPT !.result = Output("## Root cause\nflaky test")],
     [RunOk EXCEPT !.result = Output("")],
     RunKickoffFails,
     [RunOk EXCEPT !.result = [text |-> "report", str_raises |-> TRUE]]}

InitReport ==
    /\ app_features = InitialFeatures
    /\ evolution_log = <<>>
    /\ git_remote \in {g \in GitRemotes : g.ran /\ g.url # ""}
    /\ config \in ReportConfigs
    /\ agents \in {{"triager"}, {}, all_roles, {"planner"}}
    /\ request \in {r \in Requests : r.issue_number = 123}
    /\ pc = "idle"
    /\ calls = <<>>
    /\ http_log = <<>>
    /\ logs = <<>>
    /\ kickoffs = 0
    /\ repo_context = <<>>
    /\ workflow_result = <<>>
    /\ pr_result = <<>>
    /\ error = ""
    /\ returned = "pending"
    /\ op = ""
    /\ responses = <<>>
    /\ result = <<>>
    /\ env \in [llm : {"llm", "None"}]
    /\ args \in ReportInputs
    /\ report = ""
    /\ exit_code = -1

\* What a call of run_triage_report leaves behind
TriageReported(call) ==
    /\ result' = [raised |-> call.raised, exc |-> call.exc, value |-> call.value]
    /\ kickoffs' = call.kickoffs
    /\ logs' = call.logged

CallRunTriageReport ==
    /\ pc = "idle"
    /\ \E run \in ReportRuns :
         /\ TriageReported(run_triage_report(env.llm, agents, config, args, run))
         /\ responses' = <<run>>
    /\ pc' = "returned"
    /\ op' = "run_triage_report"
    /\ UNCHANGED <<demo_vars, git_remote, config, agents, request, calls, http_log,
                   repo_context, workflow_result, pr_result, error, returned, env, args,
                   report, exit_code>>

NextReport == CallRunTriageReport

SpecReport == InitReport /\ [][NextReport]_vars

\* run_triage_report has ended; the triager was or was not available
ReportEnded == pc = "returned" /\ op = "run_triage_report"
TriagerAvailable == env.llm # "None" /\ "triager" \in agents

\* The statement of C25 as it stands: with the triager available, the value
\* returned is the result of the one step as text.
C25_ReportIsResultText ==
    /\ (ReportEnded /\ ~TriagerAvailable) =>
          /\ ~result.raised
          /\ kickoffs = 0
          /\ result.value = Prefix(Get(args, "logs_excerpt", ""), RawExcerptLimit)
    /\ (ReportEnded /\ TriagerAvailable /\ ~result.raised) =>
          /\ kickoffs = 1
          /\ result.value = responses[1].result.text

\* C25: without a completion client, or without the triager in the roster,
\* run_triage_report starts no crew and returns the first 5000 characters of
\* the excerpt of its input ("" when the input has none); otherwise it starts
\* at most one crew, and when it returns it has started exactly one and
\* returns the text of its result, or a fixed message when the result is
\* empty; an exception of the rendering or of the crew leaves the call.
C25_ReportOrExcerpt ==
    /\ (ReportEnded /\ ~TriagerAvailable) =>
          /\ ~result.raised
          /\ kickoffs = 0
          /\ result.value = Prefix(Get(args, "logs_excerpt", ""), RawExcerptLimit)
          /\ Len(result.value) <= RawExcerptLimit
    /\ (ReportEnded /\ TriagerAvailable) =>
          /\ kickoffs <= 1
          /\ ~result.raised =>
                /\ kickoffs = 1
                /\ result.value =
                      IF responses[1].result.text # "" THEN responses[1].result.text
                      ELSE "Failed to generate triage report. See logs excerpt above."
          /\ result.raised =>
                \/ RaisingTemplate(prompt_template(config, "triager"))
                \/ responses[1].kickoff_error # ""
                \/ responses[1].result.str_raises

C25_Witness ==
    /\ ReportEnded
    /\ TriagerAvailable
    /\ ~result.raised
    /\ kickoffs = 1
    /\ responses[1].result.text = ""
    /\ result.value = "Failed to generate triage report. See logs excerpt above."

-----------------------------------------------------------------------------
(* The report of a triage run and the issue it goes into *)

\* The report step of the run is over (triage_failure.py:169-181)
ReportProduced == pc = "create_issue" \/ (Exited /\ exit_code = 0)

\* simple_summary of the logs of the run (triage_failure.py:179, 181)
FallbackSummary ==
    simple_summary(args.workflow_name, collected.jobs_summary, collected.excerpt, tail)

\* A record of the crew manager, or of the except clause around it, is logged
TriagerPathTaken ==
    \E i \in DOMAIN logs :
        \/ Prefix(logs[i].msg, 21) = "Triager unavailable, "
        \/ Prefix(logs[i].msg, 21) = "Triager unavailable ("
        \/ Prefix(logs[i].msg, 26) = "LLM initialization failed;"

\* The except clause around the triager ran
TriagerRaised ==
    \E i \in DOMAIN logs :
        Prefix(logs[i].msg, 53) = "Triager unavailable, falling back to simple summary: "

\* A request of create_issue was sent
IssueRequested == \E i \in DOMAIN http_log : Contains(http_log[i].url, "/issues")

\* C26: in a triage run the triager path is taken exactly when a completion
\* credential is in the environment; without one no crew manager is built and
\* the report is the heuristic fallback summary; when the triager path raises,
\* the report is the fallback summary too, and the run goes on to create the
\* issue and ends with status 0.
C26_TriagerIffCredentials ==
    /\ ReportProduced =>
          /\ TriagerPathTaken <=> env.credentials # "none"
          /\ env.credentials = "none" => (report = FallbackSummary /\ kickoffs = 0)
          /\ TriagerRaised => report = FallbackSummary
          /\ (env.credentials # "none" /\ ~TriagerRaised) => report # FallbackSummary
    /\ (Exited /\ env.argv_ok /\ env.config \notin {"missing", "empty"} /\ env.token # "") =>
          /\ exit_code = 0
          /\ IssueRequested

C26_Witness ==
    /\ Exited
    /\ exit_code = 0
    /\ env.credentials = "available"
    /\ TriagerRaised
    /\ report = FallbackSummary
    /\ IssueRequested
    /\ result.success = TRUE

\* The configuration is loaded and the tail line count computed
\* (triage_failure.py:137-141)
TailComputed == pc \in {"collect_logs", "construct_github", "get_structure", "get_commits",
                        "report", "create_issue"}

\* C27: the tail line count of a triage run is the value of --tail-lines
\* whenever the option is given, 0 included; otherwise the logs_tail_lines of
\* workflow.failure_reporting in the configuration; otherwise 200.
C27_TailLineCount ==
    TailComputed =>
        tail = IF args.tail_given THEN args.tail_lines
               ELSE IF "logs_tail_lines" \in DOMAIN failure_cfg
               THEN failure_cfg.logs_tail_lines
               ELSE DefaultTail

\* The requests of create_issue in the log: the search for an open issue
\* with the deduplication label, and the creation or the update
IsIssueSearch(q) == q.method = "GET" /\ Contains(q.url, "/issues?state=open&labels=")
IsIssueWrite(q) == q.method \in {"POST", "PATCH"} /\ Contains(q.url, "/issues")
IssueSearches == SelectSeq(http_log, IsIssueSearch)
IssueWrites == SelectSeq(http_log, IsIssueWrite)

\* The labels of the run (triage_failure.py:199)
ConfiguredLabels == issue_labels(failure_cfg)

\* The run got past the construction of the client and reached its end
TriageCompleted ==
    Exited /\ env.argv_ok /\ env.config \notin {"missing", "empty"} /\ env.token # ""

-----------------------------------------------------------------------------
(* The feature list of the demo service over any sequence of requests.      *)
(* add_feature has no await between its test and its append                 *)
(* (src/main.py:177-178), so the event loop runs each request to its end    *)
(* before the next: an interleaving of requests is a sequence of them.      *)

\* No name is twice in the list
NoDuplicates(xs) == \A i, j \in DOMAIN xs : xs[i] = xs[j] => i = j

\* The list xs is the beginning of the list ys
IsPrefix(xs, ys) == Len(xs) <= Len(ys) /\ SubSeq(ys, 1, Len(xs)) = xs

\* What a feature-add request with a name does to the list
NamedFeatureStep ==
    IF InList(args'.feature.name, app_features)
    THEN /\ result'.status_code = 200
         /\ result'.content.message = "Feature already exists"
         /\ app_features' = app_features
    ELSE /\ result'.status_code = 200
         /\ result'.content.message = "Feature added successfully"
         /\ app_features' = Append(app_features, args'.feature.name)

\* C29: the feature list never holds a name twice; a feature-add request
\* with a name that is in the list is answered "Feature already exists" and
\* leaves the list as it was, one with a new name appends the name once, and
\* no request removes or reorders the entries the list has.
C29_FeaturesStayUnique ==
    /\ [](NoDuplicates(app_features))
    /\ [][/\ IsPrefix(app_features, app_features')
          /\ (op' = "add_feature" /\ ~Nameless(args'.feature)) => NamedFeatureStep]_vars

\* A new name was added, and a later request with the same name was answered
\* "Feature already exists"
C29_Witness ==
    /\ op = "add_feature"
    /\ args.feature = [name |-> "Test Feature"]
    /\ result.content = [message |-> "Feature already exists", feature |-> "Test Feature"]
    /\ app_features = Append(Append(InitialFeatures, "Dark Mode"), "Test Feature")

-----------------------------------------------------------------------------
(* A run of process_evolution_request with the completion call of the       *)
(* workflow step in flight.  execute_evolution_workflow awaits               *)
(* asyncio.to_thread(crew.kickoff) (crew_manager.py:278) with no            *)
(* asyncio.wait_for around it, and process_evolution_request awaits         *)
(* execute_evolution_workflow (orchestrator.py:84) the same way: at          *)
(* pc = "kickoff" the run waits for the worker thread and for nothing else. *)

\* The call of the workflow step as it returns when kickoff has returned or
\* raised
KickoffCalls ==
    {execute_evolution_workflow(agents, config, workflow_input(request, repo_context), run) :
        run \in RunCrews}

\* crew_manager.py:265-278: the tasks and the crew were built, kickoff is
\* handed to the worker thread and awaited
StartKickoff ==
    /\ pc = "workflow"
    /\ \E call \in KickoffCalls : call.kickoffs > 0
    /\ pc' = "kickoff"
    /\ calls' = Append(calls, "_execute_agent_workflow")
    /\ UNCHANGED <<run_fixed, http_log, logs, kickoffs, repo_context, workflow_result,
                   pr_result, error, returned>>

\* Variant: the wait is given up without the result of kickoff, and the run
\* goes to the except clause
KickoffAwaited_timeout(call) ==
    /\ pc' = "handle_failure"
    /\ error' = "Agent timeout"
    /\ logs' = logs \o <<LogRec("ERROR", "Evolution process failed: Agent timeout")>>
    /\ UNCHANGED <<http_log, kickoffs, workflow_result, returned>>

\* crew_manager.py:278-297 and orchestrator.py:84-88: the awaited kickoff
\* has returned or raised, and the workflow step ends with its result
KickoffAwaited(call) ==
    WorkflowReturned(call)

\* The worker thread ends crew.kickoff
KickoffReturns ==
    /\ pc = "kickoff"
    /\ \E call \in KickoffCalls :
         /\ call.kickoffs > 0
         /\ KickoffAwaited(call)
    /\ UNCHANGED <<run_fixed, calls, repo_context, pr_result>>

\* crew_manager.py:265-270 raise before kickoff (no planner in the roster,
\* Crew(...) refused): the step ends without a completion call
WorkflowWithoutKickoff ==
    /\ pc = "workflow"
    /\ \E call \in KickoffCalls :
         /\ call.kickoffs = 0
         /\ WorkflowReturned(call)
    /\ calls' = Append(calls, "_execute_agent_workflow")
    /\ UNCHANGED <<run_fixed, repo_context, pr_result>>

InitLive ==
    /\ Init
    /\ request.issue_number = 123

NextLive ==
    \/ GatherStructure
    \/ GatherKeyFiles
    \/ GatherCommits
    \/ GatherTests
    \/ GatherDocs
    \/ CreateBranch
    \/ StartKickoff
    \/ KickoffReturns
    \/ WorkflowWithoutKickoff
    \/ CreatePullRequest
    \/ PostProcess
    \/ StageRaises
    \/ HandleFailure

\* The statements of the run at which something is awaited, and its end
Positions ==
    {"gather_structure", "gather_key_files", "gather_commits", "gather_tests",
     "gather_docs", "create_branch", "workflow", "kickoff", "create_pr", "post_process",
     "handle_failure", "done"}

\* The call awaited at the current statement returns or raises, and the run
\* is at another statement
AwaitedCallReturns == pc # "done" /\ pc' \in Positions \ {pc}

\* Every awaited call returns: a run does not stay for ever at a statement.
\* The requests have timeout=30 (github_integration.py:66-286) and end by
\* themselves; that the completion calls end is the condition of the claim.
CallsReturn == WF_pc(AwaitedCallReturns)

SpecLive == InitLive /\ [][NextLive]_vars /\ CallsReturn

\* The run has returned a boolean
Terminated == pc = "done" /\ returned \in {"True", "False"}

\* The completion call of the workflow step is in flight
InFlight == pc = "kickoff"

\* C30: if every awaited call returns, the run returns a boolean; while the
\* completion call of the workflow step is in flight the run has not
\* returned, has requested no pull request and has posted no comment, and it
\* leaves that wait only with the end of kickoff, never by a timeout or a
\* cancellation.
C30_TerminatesUnlessKickoffHangs ==
    /\ <>Terminated
    /\ [](InFlight => /\ returned = "pending"
                      /\ PullPosts = <<>>
                      /\ CommentPosts = <<>>
                      /\ kickoffs = 0)
    /\ [][(InFlight /\ ~InFlight') => kickoffs' = 1]_vars

\* The completion call returned with a failure after having been in flight,
\* and the run ended with False
C30_Witness ==
    /\ Terminated
    /\ returned = "False"
    /\ kickoffs = 1
    /\ WorkflowFailed
    /\ PullPosts = <<>>
    /\ calls[Len(calls)] = "_execute_agent_workflow"

====
